---- MODULE Spec2Model ----
(***************************************************************************)
(* A model of rec-cx-combine's candidate-sheet merge engine                *)
(* (src/src/index.ts): the formula reference shifter, the row template     *)
(* cloner, the keyed upsert and the formatting pass.                       *)
(*                                                                         *)
(* Text is modelled as a sequence of one-character strings, so that        *)
(* trimming, number formatting and the shifter's regular expression are    *)
(* computed character by character, as the code computes them.             *)
(***************************************************************************)
EXTENDS Integers, Sequences, FiniteSets, TLC

\* ------------------------------------------------------------------ bounds
\* Data rows of the starting sheet.
MaxInitRows == 2
\* Incoming records of one batch.
MaxBatch == 2
\* Consecutive upsert runs on the same sheet with the same batch.
MaxRuns == 2
\* Columns the starting sheet may hold beyond CANDIDATE_MAX_COLUMNS.
ExtraCols == 2
\* Units of a generated formula (shifter specification).
MaxUnits == 2
\* Row deltas 0..MaxDelta handed to the shifter.
MaxDelta == 4

\* ------------------------------------------------------- character classes
DigitSeq == <<"0", "1", "2", "3", "4", "5", "6", "7", "8", "9">>
DigitChars == {DigitSeq[i] : i \in 1..10}
UpperChars ==
  {"A", "B", "C", "D", "E", "F", "G", "H", "I", "J", "K", "L", "M",
   "N", "O", "P", "Q", "R", "S", "T", "U", "V", "W", "X", "Y", "Z"}
LowerChars ==
  {"a", "b", "c", "d", "e", "f", "g", "h", "i", "j", "k", "l", "m",
   "n", "o", "p", "q", "r", "s", "t", "u", "v", "w", "x", "y", "z"}
\* [A-Z] under the regular expression's i flag.
IsLetter(ch) == ch \in UpperChars \/ ch \in LowerChars
\* \d
IsDigit(ch) == ch \in DigitChars
\* [A-Z0-9_] under the i flag: the characters of the look-behind and look-ahead.
IsIdChar(ch) == IsLetter(ch) \/ IsDigit(ch) \/ ch = "_"

\* ------------------------------------------------- numbers and their text
DigitVal(ch) == CHOOSE d \in 0..9 : DigitSeq[d + 1] = ch

RECURSIVE DecNat(_)
DecNat(n) ==
  IF n < 10 THEN <<DigitSeq[n + 1]>>
  ELSE Append(DecNat(n \div 10), DigitSeq[(n % 10) + 1])

\* String(n) of an integer: no leading zeros, a minus sign when negative.
NumToString(n) == IF n < 0 THEN <<"-">> \o DecNat(0 - n) ELSE DecNat(n)

RECURSIVE NumberOf(_)
\* Number(rowStr) of a run of decimal digits.
NumberOf(ds) ==
  IF Len(ds) = 0 THEN 0
  ELSE 10 * NumberOf(SubSeq(ds, 1, Len(ds) - 1)) + DigitVal(ds[Len(ds)])

RECURSIVE SeqsUpTo(_, _)
\* The sequences over S of length at most n.
SeqsUpTo(S, n) ==
  IF n = 0 THEN {<<>>}
  ELSE LET shorter == SeqsUpTo(S, n - 1)
       IN  shorter \cup {Append(q, x) : q \in {z \in shorter : Len(z) = n - 1}, x \in S}

\* ------------------------------------------------------- shiftFormulaRows
RECURSIVE LetterRun(_, _)
\* Length of the run of letters of f that starts at position p.
LetterRun(f, p) ==
  IF p > Len(f) \/ ~IsLetter(f[p]) THEN 0 ELSE 1 + LetterRun(f, p + 1)

RECURSIVE DigitRun(_, _)
\* Length of the run of digits of f that starts at position p.
DigitRun(f, p) ==
  IF p > Len(f) \/ ~IsDigit(f[p]) THEN 0 ELSE 1 + DigitRun(f, p + 1)

\* The attempt of /(?<![A-Z0-9_])(\$?[A-Z]{1,3})(\$?)(\d+)(?![A-Z0-9_])/i at
\* position p of f.  The greedy choices are the only ones that can succeed:
\* fewer letters leave a letter where "$" or a digit is needed, fewer digits
\* leave a digit under the look-ahead.
MatchAt(f, p) ==
  LET colStart == IF f[p] = "$" THEN p + 1 ELSE p
      nLetters == LetterRun(f, colStart)
      afterCol == colStart + nLetters
      rowAbs   == afterCol <= Len(f) /\ f[afterCol] = "$"
      rowStart == IF rowAbs THEN afterCol + 1 ELSE afterCol
      nDigits  == DigitRun(f, rowStart)
      stop     == rowStart + nDigits
  IN  IF /\ (p = 1 \/ ~IsIdChar(f[p - 1]))
         /\ nLetters >= 1 /\ nLetters <= 3
         /\ nDigits >= 1
         /\ (stop > Len(f) \/ ~IsIdChar(f[stop]))
      THEN [ok |-> TRUE,
            colRef |-> SubSeq(f, p, afterCol - 1),
            rowAbs |-> rowAbs,
            rowStr |-> SubSeq(f, rowStart, stop - 1),
            stop   |-> stop]
      ELSE [ok |-> FALSE, colRef |-> <<>>, rowAbs |-> FALSE, rowStr |-> <<>>,
            stop |-> p]

\* The replacer callback: `${colRef}${rowAbs}${next}`.
ShiftReplacement(m, rowDelta) ==
  LET row  == NumberOf(m.rowStr)
      next == IF m.rowAbs THEN row ELSE row + rowDelta
  IN  m.colRef \o (IF m.rowAbs THEN <<"$">> ELSE <<>>) \o NumToString(next)

\* The positions of f where the pattern matches when tried there.
MatchStarts(f) == {q \in 1..Len(f) : MatchAt(f, q).ok}

RECURSIVE ShiftFrom(_, _, _, _)
\* String.prototype.replace with a global pattern, from position p on: the
\* next match is the leftmost one that starts at p or later, the text before
\* it is copied, the match is replaced, and the scan resumes where the match
\* stopped.
ShiftFrom(f, starts, p, rowDelta) ==
  LET later == {q \in starts : q >= p}
  IN  IF later = {} THEN SubSeq(f, p, Len(f))
      ELSE LET q == CHOOSE x \in later : \A y \in later : x <= y
               m == MatchAt(f, q)
           IN  SubSeq(f, p, q - 1) \o ShiftReplacement(m, rowDelta)
                 \o ShiftFrom(f, starts, m.stop, rowDelta)

shiftFormulaRows(formula, rowDelta) ==
  ShiftFrom(formula, MatchStarts(formula), 1, rowDelta)

\* ------------------------------------------------ formulas for the shifter
\* A formula is built from tokens.  A ref token is a cell reference: col is its
\* column part (with its "$", if any), abs says whether the row carries "$",
\* row is the row number.  Every other token is plain text of some kind: a
\* function name with its "(", a sheet name with its "!", a defined name, a
\* string literal, a column range, operators and numbers.
Ref(col, abs, row) == [kind |-> "ref", text |-> <<>>, col |-> col, abs |-> abs, row |-> row]
Txt(kind, text) == [kind |-> kind, text |-> text, col |-> <<>>, abs |-> FALSE, row |-> 0]

TokenText(t) ==
  IF t.kind = "ref"
  THEN t.col \o (IF t.abs THEN <<"$">> ELSE <<>>) \o NumToString(t.row)
  ELSE t.text

\* VLOOKUP($A5,Sheet2!$A:$B,2,0)+
UnitVlookup ==
  << Txt("func", <<"V", "L", "O", "O", "K", "U", "P", "(">>), Ref(<<"$", "A">>, FALSE, 5), Txt("op", <<",">>),
     Txt("sheet", <<"S", "h", "e", "e", "t", "2", "!">>), Txt("range", <<"$", "A", ":", "$", "B">>), Txt("op", <<",", "2", ",", "0", ")", "+">>) >>
\* LOG10(A1)+
UnitLog10 ==
  << Txt("func", <<"L", "O", "G", "1", "0", "(">>), Ref(<<"A">>, FALSE, 1), Txt("op", <<")", "+">>) >>
\* $C$12+
UnitAbsolute == << Ref(<<"$", "C">>, TRUE, 12), Txt("op", <<"+">>) >>
\* FY24!AB99*
UnitSheetDigits ==
  << Txt("sheet", <<"F", "Y", "2", "4", "!">>), Ref(<<"A", "B">>, FALSE, 99), Txt("op", <<"*">>) >>
\* "B2"&
UnitLiteral == << Txt("literal", <<"\"", "B", "2", "\"">>), Txt("op", <<"&">>) >>
\* ab9-
UnitLower == << Ref(<<"a", "b">>, FALSE, 9), Txt("op", <<"-">>) >>
\* ATAN2(A3,$B$4)+
UnitAtan2 ==
  << Txt("func", <<"A", "T", "A", "N", "2", "(">>), Ref(<<"A">>, FALSE, 3), Txt("op", <<",">>),
     Ref(<<"$", "B">>, TRUE, 4), Txt("op", <<")", "+">>) >>
\* TOTAL_2024+
UnitName == << Txt("name", <<"T", "O", "T", "A", "L", "_", "2", "0", "2", "4">>), Txt("op", <<"+">>) >>

\* "AB01"&
UnitCode == << Txt("literal", <<"\"", "A", "B", "0", "1", "\"">>), Txt("op", <<"&">>) >>

Units ==
  {UnitVlookup, UnitLog10, UnitAbsolute, UnitSheetDigits, UnitLiteral,
   UnitLower, UnitAtan2, UnitName, UnitCode}

RECURSIVE Flatten(_)
Flatten(seqs) == IF Len(seqs) = 0 THEN <<>> ELSE seqs[1] \o Flatten(Tail(seqs))

\* The tokens of a formula made of the given units, closed by the number 1.
TokensOf(units) == Flatten(units) \o << Txt("op", <<"1">>) >>

TextOfTokens(tokens) == Flatten([k \in 1..Len(tokens) |-> TokenText(tokens[k])])

\* The formula text handed to shiftFormulaRows.
FormulaText(units) == TextOfTokens(TokensOf(units))

\* ------------------------------------------------------------------ config
\* Header texts.  The Thai texts of the source are written with short ASCII
\* stand-ins naming the column; the ASCII headers are kept or abbreviated.
\* BOM stands for the one character U+FEFF.
BOM == "BOM"
CANDIDATE_KEY == <<"i", "d">>
JR_NO_ALIAS == <<"J", "R", " ", "N", "o", ".">>

CANDIDATE_BASE_COLS ==
  <<
    <<"t", "i", "t", "l", "e">>,
    <<"n", "a", "m", "e", " ", "t", "h">>,
    <<"s", "u", "r", "n", "a", "m", "e", " ", "t", "h">>,
    <<"n", "a", "m", "e", " ", "e", "n">>,
    <<"s", "u", "r", "n", "a", "m", "e", " ", "e", "n">>,
    <<"n", "i", "c", "k">>,
    <<"i", "d">>,
    <<"b", "i", "r", "t", "h">>,
    <<"p", "h", "o", "n", "e">>,
    <<"e", "m", "a", "i", "l">>
  >>

CANDIDATE_OUTPUT_HEADER_ORDER ==
  <<
    <<"t", "i", "t", "l", "e">>,  \* 1
    <<"n", "a", "m", "e", " ", "t", "h">>,  \* 2
    <<"s", "u", "r", "n", "a", "m", "e", " ", "t", "h">>,  \* 3
    <<"n", "a", "m", "e", " ", "e", "n">>,  \* 4
    <<"s", "u", "r", "n", "a", "m", "e", " ", "e", "n">>,  \* 5
    <<"n", "i", "c", "k">>,  \* 6
    <<"i", "d">>,  \* 7
    <<"b", "i", "r", "t", "h">>,  \* 8
    <<"p", "h", "o", "n", "e">>,  \* 9
    <<"e", "m", "a", "i", "l">>,  \* 10
    <<"J", "R", " ", "N", "o", ".">>,  \* 11
    <<"B", "U">>,  \* 12
    <<"P", "o", "s", "i", "t", "i", "o", "n">>,  \* 13
    <<"C", "a", "t", "e", "g", "o", "r", "y">>,  \* 14
    <<"L", "e", "v", "e", "l">>,  \* 15
    <<"M", "a", "n", "a", "g", "e", " ", "b", "y">>,  \* 16
    <<"S", "t", "a", "t", "u", "s">>,  \* 17
    <<"S", "t", "a", "t", "u", "s", " ", "D", "a", "t", "e">>,  \* 18
    <<"C", "r", "e", "a", "t", "e", "d", " ", "b", "y">>,  \* 19
    <<"D", "a", "t", "e">>,  \* 20
    <<"C", "a", "n", "d", " ", "S", "t", "a", "t", "u", "s">>,  \* 21
    <<"S", "h", "o", "r", "t", "l", "i", "s", "t">>,  \* 22
    <<"1", "s", "t", " ", "r", "o", "u", "n", "d">>,  \* 23
    <<"2", "n", "d", " ", "r", "o", "u", "n", "d">>,  \* 24
    <<"F", "i", "n", "a", "l", " ", "r", "o", "u", "n", "d">>,  \* 25
    <<"O", "f", "f", "e", "r", "i", "n", "g">>,  \* 26
    <<"H", "i", "r", "i", "n", "g">>,  \* 27
    <<"O", "n", "b", "o", "a", "r", "d", "i", "n", "g">>,  \* 28
    <<"C", "h", "a", "n", "n", "e", "l">>,  \* 29
    <<"T", "D", " ", "R", "e", "a", "s", "o", "n">>,  \* 30
    <<"T", "D", " ", "D", "a", "t", "e">>,  \* 31
    <<"R", "e", "s", "u", "m", "e">>,  \* 32
    <<"S", "L", "A", " ", "L", "e", "v", "e", "l">>,  \* 33
    <<"S", "L", "A", " ", "S">>,  \* 34
    <<"S", "L", "A", " ", "I">>,  \* 35
    <<"S", "L", "A", " ", "O", "f">>,  \* 36
    <<"S", "L", "A", " ", "H">>,  \* 37
    <<"S", "L", "A", " ", "O", "n">>  \* 38
  >>

CANDIDATE_MAX_COLUMNS == 38
CANDIDATE_WIDTH == 24
HEADER_COLOR_A_J == "FF1CBBD8"
HEADER_COLOR_K_V_AF == "FF5387D9"
HEADER_COLOR_L_U_AG_AL == "FFFED243"

\* Column numbers the upsert and the cloner hard-code.
ResetFirst == 22
ResetLast == 31
JrNoCol == 11

\* ------------------------------------------------------------------ values
\* A scalar or cell value: t is its JavaScript kind, s its text (a string's
\* characters, a formula's text), n its number (a date's day of January 2020,
\* NaN for an invalid date).  null and undefined are one value, Null: the code
\* treats them alike everywhere (== null tests, ??, truthiness).
NaN == 0 - 1
Null == [t |-> "null", s |-> <<>>, n |-> 0]
StrV(s) == [t |-> "str", s |-> s, n |-> 0]
NumV(n) == [t |-> "num", s |-> <<>>, n |-> n]
DateV(d) == [t |-> "date", s |-> <<>>, n |-> d]
\* { formula: f }, no cached result.
FormulaV(f) == [t |-> "formula", s |-> f, n |-> 0]

IsInvalidDate(v) == v.t = "date" /\ v.n = NaN

\* \s, and what trim() strips: blanks and U+FEFF.
IsSpace(ch) == ch = " " \/ ch = BOM

RECURSIVE TrimLeft(_)
TrimLeft(s) ==
  IF Len(s) > 0 /\ IsSpace(s[1]) THEN TrimLeft(Tail(s)) ELSE s

RECURSIVE TrimRight(_)
TrimRight(s) ==
  IF Len(s) > 0 /\ IsSpace(s[Len(s)])
  THEN TrimRight(SubSeq(s, 1, Len(s) - 1)) ELSE s

\* String.prototype.trim
Trim(s) == TrimRight(TrimLeft(s))

\* Date.prototype.toISOString of a valid date (day d of January 2020, UTC).
ToISOString(d) ==
  <<"2", "0", "2", "0", "-", "0", "1", "-">>
    \o (IF d < 10 THEN <<"0">> ELSE <<>>) \o DecNat(d)
    \o <<"T", "0", "0", ":", "0", "0", ":", "0", "0", ".", "0", "0", "0", "Z">>

\* String(date): "Invalid Date", or the local date text ("Wed Jan 01 2020
\* 00:00:00 GMT+0000"); the weekday name is left out of the model's text.
DateToString(d) ==
  IF d = NaN
  THEN <<"I", "n", "v", "a", "l", "i", "d", " ", "D", "a", "t", "e">>
  ELSE <<"J", "a", "n", " ">>
         \o (IF d < 10 THEN <<"0">> ELSE <<>>) \o DecNat(d)
         \o <<" ", "2", "0", "2", "0", " ", "0", "0", ":", "0", "0", ":", "0", "0",
              " ", "G", "M", "T", "+", "0", "0", "0", "0">>

\* String(v) of a value that is not null.
JsString(v) ==
  IF v.t = "str" THEN v.s
  ELSE IF v.t = "num" THEN NumToString(v.n)
  ELSE IF v.t = "date" THEN DateToString(v.n)
  ELSE <<"[", "o", "b", "j", "e", "c", "t", " ", "O", "b", "j", "e", "c", "t", "]">>

safeStr(v) == IF v.t = "null" THEN <<>> ELSE Trim(JsString(v))

\* JavaScript truthiness, for `if (incomingJR)`.
Truthy(v) ==
  IF v.t = "null" THEN FALSE
  ELSE IF v.t = "str" THEN Len(v.s) > 0
  ELSE IF v.t = "num" THEN v.n # 0
  ELSE TRUE

RECURSIVE CollapseSpaces(_)
\* replace(/\s+/g, " ")
CollapseSpaces(s) ==
  IF Len(s) = 0 THEN <<>>
  ELSE IF IsSpace(s[1])
       THEN <<" ">> \o CollapseSpaces(TrimLeft(s))
       ELSE <<s[1]>> \o CollapseSpaces(Tail(s))

\* replace(/\uFEFF/g, "")
RemoveBOM(s) == SelectSeq(s, LAMBDA ch : ch # BOM)

\* The header of a headerOrder entry, a text.
normalizeHeader(h) == Trim(CollapseSpaces(RemoveBOM(h)))

\* The cell value as the key scan reads it.  A formula cell of the model has
\* no cached result, text or richText, so it reads as "".
excelCellValueToString(v) ==
  IF v.t = "null" THEN <<>>
  ELSE IF v.t = "str" \/ v.t = "num" THEN safeStr(v)
  ELSE IF v.t = "date"
       THEN IF v.n = NaN THEN <<>> ELSE Trim(ToISOString(v.n))
  ELSE <<>>

\* structuredClone (or its JSON fallback) of a style or validation object: a
\* copy that is equal to the original.
structuredClone(object) == object

\* cloneCellValue of a cell value: an invalid Date becomes null, a valid Date
\* and a primitive are copied as they are.
cloneCellValue(value) == IF IsInvalidDate(value) THEN Null ELSE value

\* -------------------------------------------------------- derived formulas
\* The formulas upsert writes to a row r (index.ts lines 324-369), each split at
\* its ${r} holes; DerivedFormula(c, r) fills the holes with String(r).
DerivedParts(c) ==
  \* line 324: IFERROR(VLOOKUP($K${r},JR_Detail!$A:$O,2,0),"")
  IF c = 12 THEN
    <<<<"I", "F", "E", "R", "R", "O", "R", "(", "V", "L", "O", "O", "K", "U", "P", "(", "$", "K">>,
      <<",", "J", "R", "_", "D", "e", "t", "a", "i", "l", "!", "$", "A", ":", "$", "O", ",", "2", ",", "0", ")", ",", "\"", "\"", ")">>>>
  \* line 325: IFERROR(VLOOKUP($K${r},JR_Detail!$A:$O,3,0),"")
  ELSE IF c = 13 THEN
    <<<<"I", "F", "E", "R", "R", "O", "R", "(", "V", "L", "O", "O", "K", "U", "P", "(", "$", "K">>,
      <<",", "J", "R", "_", "D", "e", "t", "a", "i", "l", "!", "$", "A", ":", "$", "O", ",", "3", ",", "0", ")", ",", "\"", "\"", ")">>>>
  \* line 326: IFERROR(VLOOKUP($K${r},JR_Detail!$A:$O,4,0),"")
  ELSE IF c = 14 THEN
    <<<<"I", "F", "E", "R", "R", "O", "R", "(", "V", "L", "O", "O", "K", "U", "P", "(", "$", "K">>,
      <<",", "J", "R", "_", "D", "e", "t", "a", "i", "l", "!", "$", "A", ":", "$", "O", ",", "4", ",", "0", ")", ",", "\"", "\"", ")">>>>
  \* line 327: IFERROR(VLOOKUP($K${r},JR_Detail!$A:$O,5,0),"")
  ELSE IF c = 15 THEN
    <<<<"I", "F", "E", "R", "R", "O", "R", "(", "V", "L", "O", "O", "K", "U", "P", "(", "$", "K">>,
      <<",", "J", "R", "_", "D", "e", "t", "a", "i", "l", "!", "$", "A", ":", "$", "O", ",", "5", ",", "0", ")", ",", "\"", "\"", ")">>>>
  \* line 328: IFERROR(VLOOKUP($K${r},JR_Detail!$A:$O,11,0),"")
  ELSE IF c = 16 THEN
    <<<<"I", "F", "E", "R", "R", "O", "R", "(", "V", "L", "O", "O", "K", "U", "P", "(", "$", "K">>,
      <<",", "J", "R", "_", "D", "e", "t", "a", "i", "l", "!", "$", "A", ":", "$", "O", ",", "1", "1", ",", "0", ")", ",", "\"", "\"", ")">>>>
  \* line 329: IFERROR(VLOOKUP($K${r},JR_Detail!$A:$O,12,0),"")
  ELSE IF c = 17 THEN
    <<<<"I", "F", "E", "R", "R", "O", "R", "(", "V", "L", "O", "O", "K", "U", "P", "(", "$", "K">>,
      <<",", "J", "R", "_", "D", "e", "t", "a", "i", "l", "!", "$", "A", ":", "$", "O", ",", "1", "2", ",", "0", ")", ",", "\"", "\"", ")">>>>
  \* line 333: IFERROR(VLOOKUP($K${r},JR_Detail!$A:$O,13,0),"")
  ELSE IF c = 18 THEN
    <<<<"I", "F", "E", "R", "R", "O", "R", "(", "V", "L", "O", "O", "K", "U", "P", "(", "$", "K">>,
      <<",", "J", "R", "_", "D", "e", "t", "a", "i", "l", "!", "$", "A", ":", "$", "O", ",", "1", "3", ",", "0", ")", ",", "\"", "\"", ")">>>>
  \* line 336: IFERROR(VLOOKUP($K${r},JR_Detail!$A:$O,14,0),"")
  ELSE IF c = 19 THEN
    <<<<"I", "F", "E", "R", "R", "O", "R", "(", "V", "L", "O", "O", "K", "U", "P", "(", "$", "K">>,
      <<",", "J", "R", "_", "D", "e", "t", "a", "i", "l", "!", "$", "A", ":", "$", "O", ",", "1", "4", ",", "0", ")", ",", "\"", "\"", ")">>>>
  \* line 340: IFERROR(VLOOKUP($K${r},JR_Detail!$A:$O,15,0),"")
  ELSE IF c = 20 THEN
    <<<<"I", "F", "E", "R", "R", "O", "R", "(", "V", "L", "O", "O", "K", "U", "P", "(", "$", "K">>,
      <<",", "J", "R", "_", "D", "e", "t", "a", "i", "l", "!", "$", "A", ":", "$", "O", ",", "1", "5", ",", "0", ")", ",", "\"", "\"", ")">>>>
  \* line 344: IF(AD${r}<>"", "Turndown", IFERROR(LOOKUP(2, 1/(V${r}:AB${r}<>""), V$1:AB$1), ""))
  ELSE IF c = 21 THEN
    <<<<"I", "F", "(", "A", "D">>,
      <<"<", ">", "\"", "\"", ",", " ", "\"", "T", "u", "r", "n", "d", "o", "w", "n", "\"", ",", " ", "I", "F", "E", "R", "R", "O", "R", "(", "L", "O", "O", "K", "U", "P", "(", "2", ",", " ", "1", "/", "(", "V">>,
      <<":", "A", "B">>,
      <<"<", ">", "\"", "\"", ")", ",", " ", "V", "$", "1", ":", "A", "B", "$", "1", ")", ",", " ", "\"", "\"", ")", ")">>>>
  \* line 349: IF(OR(ISNUMBER(SEARCH("Collector", M${r})), ISNUMBER(SEARCH("Underwriting", M${r})), IS...
  ELSE IF c = 33 THEN
    <<<<"I", "F", "(", "O", "R", "(", "I", "S", "N", "U", "M", "B", "E", "R", "(", "S", "E", "A", "R", "C", "H", "(", "\"", "C", "o", "l", "l", "e", "c", "t", "o", "r", "\"", ",", " ", "M">>,
      <<")", ")", ",", " ", "I", "S", "N", "U", "M", "B", "E", "R", "(", "S", "E", "A", "R", "C", "H", "(", "\"", "U", "n", "d", "e", "r", "w", "r", "i", "t", "i", "n", "g", "\"", ",", " ", "M">>,
      <<")", ")", ",", " ", "I", "S", "N", "U", "M", "B", "E", "R", "(", "S", "E", "A", "R", "C", "H", "(", "\"", "C", "o", "n", "t", "a", "c", "t", " ", "C", "e", "n", "t", "e", "r", "\"", ",", " ", "M">>,
      <<")", ")", ")", ",", " ", "3", "0", ",", " ", "I", "F", "(", "O", "R", "(", "O">>,
      <<"=", "\"", "C", "h", "i", "e", "f", "\"", ",", " ", "O">>,
      <<"=", "\"", "H", "e", "a", "d", " ", "o", "f", "\"", ")", ",", " ", "9", "0", ",", " ", "I", "F", "(", "O", "R", "(", "O">>,
      <<"=", "\"", "T", "e", "a", "m", " ", "l", "e", "a", "d", "\"", ",", " ", "O">>,
      <<"=", "\"", "S", "e", "n", "i", "o", "r", " ", "P", "r", "o", "f", "e", "s", "s", "i", "o", "n", "a", "l", "\"", ",", " ", "O">>,
      <<"=", "\"", "E", "x", "p", "e", "r", "t", "\"", ")", ",", " ", "6", "0", ",", " ", "I", "F", "(", "O", "R", "(", "O">>,
      <<"=", "\"", "P", "r", "o", "f", "e", "s", "s", "i", "o", "n", "a", "l", "\"", ",", " ", "O">>,
      <<"=", "\"", "S", "u", "p", "p", "o", "r", "t", "\"", ")", ",", " ", "4", "5", ",", " ", "0", ")", ")", ")", ")">>>>
  \* line 353: IF(V${r}<>"", IFERROR(VALUE(V${r})-VALUE(T${r}), ""), "")
  ELSE IF c = 34 THEN
    <<<<"I", "F", "(", "V">>,
      <<"<", ">", "\"", "\"", ",", " ", "I", "F", "E", "R", "R", "O", "R", "(", "V", "A", "L", "U", "E", "(", "V">>,
      <<")", "-", "V", "A", "L", "U", "E", "(", "T">>,
      <<")", ",", " ", "\"", "\"", ")", ",", " ", "\"", "\"", ")">>>>
  \* line 357: IF(Y${r}<>"", IFERROR(VALUE(Y${r})-VALUE(T${r}), ""), IF(X${r}<>"", IFERROR(VALUE(X${r}...
  ELSE IF c = 35 THEN
    <<<<"I", "F", "(", "Y">>,
      <<"<", ">", "\"", "\"", ",", " ", "I", "F", "E", "R", "R", "O", "R", "(", "V", "A", "L", "U", "E", "(", "Y">>,
      <<")", "-", "V", "A", "L", "U", "E", "(", "T">>,
      <<")", ",", " ", "\"", "\"", ")", ",", " ", "I", "F", "(", "X">>,
      <<"<", ">", "\"", "\"", ",", " ", "I", "F", "E", "R", "R", "O", "R", "(", "V", "A", "L", "U", "E", "(", "X">>,
      <<")", "-", "V", "A", "L", "U", "E", "(", "T">>,
      <<")", ",", " ", "\"", "\"", ")", ",", " ", "I", "F", "(", "W">>,
      <<"<", ">", "\"", "\"", ",", " ", "I", "F", "E", "R", "R", "O", "R", "(", "V", "A", "L", "U", "E", "(", "W">>,
      <<")", "-", "V", "A", "L", "U", "E", "(", "T">>,
      <<")", ",", " ", "\"", "\"", ")", ",", " ", "\"", "\"", ")", ")", ")">>>>
  \* line 361: IF(Z${r}<>"", IFERROR(VALUE(Z${r})-VALUE(T${r}), ""), "")
  ELSE IF c = 36 THEN
    <<<<"I", "F", "(", "Z">>,
      <<"<", ">", "\"", "\"", ",", " ", "I", "F", "E", "R", "R", "O", "R", "(", "V", "A", "L", "U", "E", "(", "Z">>,
      <<")", "-", "V", "A", "L", "U", "E", "(", "T">>,
      <<")", ",", " ", "\"", "\"", ")", ",", " ", "\"", "\"", ")">>>>
  \* line 365: IF(AA${r}<>"", IFERROR(VALUE(AA${r})-VALUE(T${r}), ""), "")
  ELSE IF c = 37 THEN
    <<<<"I", "F", "(", "A", "A">>,
      <<"<", ">", "\"", "\"", ",", " ", "I", "F", "E", "R", "R", "O", "R", "(", "V", "A", "L", "U", "E", "(", "A", "A">>,
      <<")", "-", "V", "A", "L", "U", "E", "(", "T">>,
      <<")", ",", " ", "\"", "\"", ")", ",", " ", "\"", "\"", ")">>>>
  \* line 369: IF(AB${r}<>"", IFERROR(VALUE(AB${r})-VALUE(T${r}), ""), "")
  ELSE IF c = 38 THEN
    <<<<"I", "F", "(", "A", "B">>,
      <<"<", ">", "\"", "\"", ",", " ", "I", "F", "E", "R", "R", "O", "R", "(", "V", "A", "L", "U", "E", "(", "A", "B">>,
      <<")", "-", "V", "A", "L", "U", "E", "(", "T">>,
      <<")", ",", " ", "\"", "\"", ")", ",", " ", "\"", "\"", ")">>>>
  ELSE <<>>

DerivedCols == {12, 13, 14, 15, 16, 17, 18, 19, 20, 21, 33, 34, 35, 36, 37, 38}

RECURSIVE JoinParts(_, _)
JoinParts(parts, sep) ==
  IF Len(parts) = 1 THEN parts[1]
  ELSE parts[1] \o sep \o JoinParts(Tail(parts), sep)

\* A variant of DerivedFormula that writes the formulas of row 2 everywhere.
DerivedFormulaRow2(c, r) == JoinParts(DerivedParts(c), NumToString(2))

\* The template literal of column c evaluated for row r.
DerivedFormula(c, r) == JoinParts(DerivedParts(c), NumToString(r))

\* ------------------------------------------------------------- the sheet
\* Rows and columns of the grid the model keeps.  Every cell exists; a cell
\* nothing was written to is EmptyCell.
SheetRows == 1 + MaxInitRows + MaxRuns * MaxBatch
SheetCols == CANDIDATE_MAX_COLUMNS + ExtraCols
Rows == 1..SheetRows
Cols == 1..SheetCols

Min(a, b) == IF a < b THEN a ELSE b
Max(a, b) == IF a > b THEN a ELSE b
SetMax(S) == CHOOSE x \in S : \A y \in S : y <= x

\* A font: face stands for the attributes the code never sets.
NoFont == [face |-> "", bold |-> FALSE, size |-> 0, color |-> ""]
\* A style: look stands for the attributes the code never sets.
EmptyStyle ==
  [look |-> "", numFmt |-> "", border |-> "", fill |-> "", font |-> NoFont,
   alignment |-> ""]
\* No data validation on the cell (the getter returns undefined).
NoDV == ""
\* The rules upsert attaches (index.ts lines 373-388).
DV_DATE == "date > 2020-01-01, Date Only"
DV_CHANNEL == "list LinkedIn,JobThai,Referral,Agency,Walk-in"
DV_TURNDOWN_REASON == "list Salary,Counter Offer,Culture Fit,Ghosting,Skill Mismatch,Other"
DV_TURNDOWN_DATE == "date > 2020-01-01, Date Only, Turndown"

EmptyCell == [value |-> Null, style |-> EmptyStyle, dataValidation |-> NoDV]
EmptyRow == [c \in Cols |-> EmptyCell]
EmptySheet == [r \in Rows |-> EmptyRow]

\* A cell that holds a value or a style.
HasContent(cell) == cell.value # Null \/ cell.style # EmptyStyle

\* row.hasValues: some cell of the row holds a value.
RowHasValues(row) == \E c \in Cols : row[c].value # Null

\* ws.columnCount: the last column that holds a cell, over the rows that have
\* values.  The model counts the cells with a value or a style.
columnCount(ws) ==
  SetMax({0} \cup {c \in Cols : \E r \in Rows :
                      RowHasValues(ws[r]) /\ HasContent(ws[r][c])})

\* max(ws.rowCount, ws.actualRowCount): the last row that holds a cell.
rowCount(ws) ==
  SetMax({0} \cup {r \in Rows : \E c \in Cols :
                      HasContent(ws[r][c]) \/ ws[r][c].dataValidation # NoDV})

\* ws.spliceColumns(start, count) with nothing to insert and nothing to the
\* right of the cut: every cell of the cut columns loses its value and style.
spliceColumns(ws, start, count) ==
  [r \in Rows |-> [c \in Cols |->
     IF c >= start /\ c < start + count
     THEN [ws[r][c] EXCEPT !.value = Null, !.style = EmptyStyle]
     ELSE ws[r][c]]]

\* -------------------------------------------- cloneCandidateRowTemplate
\* One turn of the loop: the destination cell of column c.
CloneCell(src, dst, c, rowDelta) ==
  [style |-> structuredClone(src.style),
   dataValidation |->
     IF src.dataValidation # NoDV THEN structuredClone(src.dataValidation)
     ELSE dst.dataValidation,
   value |->
     IF c >= ResetFirst /\ c <= ResetLast THEN Null
     ELSE IF src.value.t = "formula"
          THEN FormulaV(shiftFormulaRows(src.value.s, rowDelta))
          ELSE cloneCellValue(src.value)]

\* A variant of cloneCandidateRowTemplate that goes through every column of
\* the sheet instead of stopping at maxCol.
cloneCandidateRowTemplateAllCols(ws, fromRow, toRow, maxCol) ==
  [ws EXCEPT ![toRow] = [c \in Cols |->
     CloneCell(ws[fromRow][c], ws[toRow][c], c, toRow - fromRow)]]

\* A variant of cloneCandidateRowTemplate that shifts by the destination row
\* instead of the distance between the rows.
cloneCandidateRowTemplateAbsDelta(ws, fromRow, toRow, maxCol) ==
  [ws EXCEPT ![toRow] = [c \in Cols |->
     IF c <= maxCol
     THEN CloneCell(ws[fromRow][c], ws[toRow][c], c, toRow)
     ELSE ws[toRow][c]]]

cloneCandidateRowTemplate(ws, fromRow, toRow, maxCol) ==
  [ws EXCEPT ![toRow] = [c \in Cols |->
     IF c <= maxCol
     THEN CloneCell(ws[fromRow][c], ws[toRow][c], c, toRow - fromRow)
     ELSE ws[toRow][c]]]

\* ------------------------------------- upsertCandidateSheetWithExcelJS
\* A record: a function from header texts to values; a header it does not
\* hold reads as undefined.
Field(row, h) == IF h \in DOMAIN row THEN row[h] ELSE Null

MaxColOf(headerOrder) == Min(CANDIDATE_MAX_COLUMNS, Len(headerOrder))

\* A variant of WriteHeader without line 260's cut.
WriteHeaderNoCut(ws, headerOrder, maxCol) ==
  [ws EXCEPT ![1] = [c \in Cols |->
     IF c <= maxCol
     THEN [ws[1][c] EXCEPT !.value = StrV(headerOrder[c])]
     ELSE ws[1][c]]]

\* Lines 259-260: the header row, then the cut of the columns beyond maxCol.
WriteHeader(ws, headerOrder, maxCol) ==
  LET withHeader ==
        [ws EXCEPT ![1] = [c \in Cols |->
           IF c <= maxCol
           THEN [ws[1][c] EXCEPT !.value = StrV(headerOrder[c])]
           ELSE ws[1][c]]]
  IN  IF columnCount(withHeader) > maxCol
      THEN spliceColumns(withHeader, maxCol + 1, columnCount(withHeader) - maxCol)
      ELSE withHeader

\* colByHeader.get(h): the last column of 1..maxCol whose normalized header
\* is h; 0 stands for undefined.
ColOfHeader(headerOrder, maxCol, h) ==
  SetMax({0} \cup {c \in 1..maxCol :
                     /\ normalizeHeader(headerOrder[c]) = h
                     /\ Len(h) > 0})

KeyColOf(headerOrder) ==
  ColOfHeader(headerOrder, MaxColOf(headerOrder), CANDIDATE_KEY)

\* baseColsInfo: the base columns the header holds, in CANDIDATE_BASE_COLS order.
BaseColsInfo(headerOrder) ==
  LET all == [k \in 1..Len(CANDIDATE_BASE_COLS) |->
                [h |-> CANDIDATE_BASE_COLS[k],
                 c |-> ColOfHeader(headerOrder, MaxColOf(headerOrder),
                                   CANDIDATE_BASE_COLS[k])]]
  IN  SelectSeq(all, LAMBDA b : b.c # 0)

BaseColSet(info) == {info[k].c : k \in 1..Len(info)}

\* Lines 281-289, the scan of the existing rows.
RowKey(ws, r, keyCol) == excelCellValueToString(ws[r][keyCol].value)

HasBaseData(ws, r, baseCols) ==
  \E c \in baseCols : Len(excelCellValueToString(ws[r][c].value)) > 0

\* A variant of ScanKeyToRow in which the first row scanned for a key wins.
ScanKeyToRowFirst(ws, keyCol) ==
  LET scanned == 2..rowCount(ws)
      keys == {RowKey(ws, r, keyCol) : r \in scanned} \ {<<>>}
  IN  [k \in keys |->
         CHOOSE r \in scanned :
           /\ RowKey(ws, r, keyCol) = k
           /\ \A x \in scanned : RowKey(ws, x, keyCol) = k => r <= x]

ScanKeyToRow(ws, keyCol) ==
  LET scanned == 2..rowCount(ws)
      keys == {RowKey(ws, r, keyCol) : r \in scanned} \ {<<>>}
  IN  [k \in keys |-> SetMax({r \in scanned : RowKey(ws, r, keyCol) = k})]

\* A variant of ScanLastDataRow that looks at the key cell only.
ScanLastDataRowKeyOnly(ws, keyCol, baseCols) ==
  SetMax({1} \cup {r \in 2..rowCount(ws) : Len(RowKey(ws, r, keyCol)) > 0})

ScanLastDataRow(ws, keyCol, baseCols) ==
  SetMax({1} \cup {r \in 2..rowCount(ws) :
                     \/ Len(RowKey(ws, r, keyCol)) > 0
                     \/ HasBaseData(ws, r, baseCols)})

\* A variant of BaseValue that writes the empty string to the key column.
BaseValueBlankKey(row, h) ==
  LET val == Field(row, h)
  IN  IF IsInvalidDate(val) \/ val = Null \/ h = CANDIDATE_KEY
      THEN StrV(<<>>) ELSE val

\* Lines 316-318: the value a base column receives from the record.
BaseValue(row, h) ==
  LET val == Field(row, h)
  IN  IF IsInvalidDate(val) \/ val = Null THEN StrV(<<>>) ELSE val

NumFmtDateCols == {18, 20} \cup (22..28) \cup {31}
NumFmtIntCols == 33..38

\* The column of baseColsInfo's entry for column c, if there is one.
IsBaseCol(info, c) == \E k \in 1..Len(info) : info[k].c = c
BaseHeaderAt(info, c) == info[CHOOSE k \in 1..Len(info) : info[k].c = c].h

\* Variants of RecordCellValue that the claims on matched rows must tell from
\* it: one also writes the record's JR No. to column 11 of a matched row, one
\* leaves a base cell alone once it holds something.
RecordCellValueJrToo(ws, r, c, row, info) ==
  IF c \in DerivedCols THEN FormulaV(DerivedFormula(c, r))
  ELSE IF IsBaseCol(info, c) THEN BaseValue(row, BaseHeaderAt(info, c))
  ELSE IF c = JrNoCol /\ Truthy(Field(row, JR_NO_ALIAS))
       THEN Field(row, JR_NO_ALIAS)
       ELSE ws[r][c].value

RecordCellValueKeepFirst(ws, r, c, row, info) ==
  IF c \in DerivedCols THEN FormulaV(DerivedFormula(c, r))
  ELSE IF IsBaseCol(info, c) /\ ws[r][c].value \in {Null, StrV(<<>>)}
       THEN BaseValue(row, BaseHeaderAt(info, c))
       ELSE ws[r][c].value

\* Lines 315-369: the value of cell (r, c) after the writes for the record,
\* a later write of the code winning over an earlier one to the same cell.
RecordCellValue(ws, r, c, row, info) ==
  IF c \in DerivedCols THEN FormulaV(DerivedFormula(c, r))
  ELSE IF IsBaseCol(info, c) THEN BaseValue(row, BaseHeaderAt(info, c))
  ELSE ws[r][c].value

\* A variant of RecordCellNumFmt that gives the date format to every tracking
\* column, the two list columns 29 and 30 included.
RecordCellNumFmtAllTracking(ws, r, c) ==
  IF c \in {18, 20} \cup (ResetFirst..ResetLast) THEN "yyyy-mm-dd"
  ELSE IF c \in NumFmtIntCols THEN "0"
  ELSE ws[r][c].style.numFmt

\* Lines 334-389: the number format of cell (r, c) after the writes.
RecordCellNumFmt(ws, r, c) ==
  IF c \in NumFmtDateCols THEN "yyyy-mm-dd"
  ELSE IF c \in NumFmtIntCols THEN "0"
  ELSE ws[r][c].style.numFmt

\* Lines 373-388: the data validation of cell (r, c) after the writes.
RecordCellDV(ws, r, c) ==
  IF c >= 22 /\ c <= 28 THEN DV_DATE
  ELSE IF c = 29 THEN DV_CHANNEL
  ELSE IF c = 30 THEN DV_TURNDOWN_REASON
  ELSE IF c = 31 THEN DV_TURNDOWN_DATE
  ELSE ws[r][c].dataValidation

\* Lines 311-389: what is written to the target row r for the record.
WriteRecordRow(ws, r, row, info) ==
  [ws EXCEPT ![r] = [c \in Cols |->
     [value |-> RecordCellValue(ws, r, c, row, info),
      style |-> [ws[r][c].style EXCEPT !.numFmt = RecordCellNumFmt(ws, r, c)],
      dataValidation |-> RecordCellDV(ws, r, c)]]]

\* A variant of NewRow without line 302's reset of columns 22..31.
NewRowNoReset(ws, row, lastDataRow, maxCol) ==
  LET targetRow == lastDataRow + 1
      cloned ==
        IF lastDataRow >= 2
        THEN cloneCandidateRowTemplate(ws, lastDataRow, targetRow, maxCol)
        ELSE ws
      incomingJR == Field(row, JR_NO_ALIAS)
  IN  IF Truthy(incomingJR)
      THEN [cloned EXCEPT ![targetRow][JrNoCol].value = incomingJR]
      ELSE cloned

\* Lines 298-309: the new row of a key the index does not hold.
NewRow(ws, row, lastDataRow, maxCol) ==
  LET targetRow == lastDataRow + 1
      cloned ==
        IF lastDataRow >= 2
        THEN cloneCandidateRowTemplate(ws, lastDataRow, targetRow, maxCol)
        ELSE ws
      reset ==
        [cloned EXCEPT ![targetRow] = [c \in Cols |->
           IF c >= ResetFirst /\ c <= ResetLast
           THEN [cloned[targetRow][c] EXCEPT !.value = Null]
           ELSE cloned[targetRow][c]]]
      incomingJR == Field(row, JR_NO_ALIAS)
  IN  IF Truthy(incomingJR)
      THEN [reset EXCEPT ![targetRow][JrNoCol].value = incomingJR]
      ELSE reset

\* ------------------------------------ applyCandidateFormattingWithExcelJS
\* The sheet's own settings: column widths, the header row's height, the
\* frozen view and the autofilter's last column (0: none).
NoMeta ==
  [width |-> [c \in Cols |-> 0], height1 |-> 0, frozen |-> FALSE,
   autoFilterTo |-> 0]

\* fillHeader's static colour table (lines 412-416).
HeaderFill(c) ==
  IF c >= 1 /\ c <= 10 THEN HEADER_COLOR_A_J
  ELSE IF c = 11 \/ (c >= 22 /\ c <= 32) THEN HEADER_COLOR_K_V_AF
  ELSE IF (c >= 12 /\ c <= 21) \/ (c >= 33 /\ c <= 38) THEN HEADER_COLOR_L_U_AG_AL
  ELSE ""

headerFontColorByCol(col) ==
  IF (col >= 1 /\ col <= 10) \/ col = 11 \/ (col >= 22 /\ col <= 32)
  THEN "FFFFFFFF" ELSE "FF000000"

FormatCells(ws, lastRow) ==
  LET maxCol == Min(CANDIDATE_MAX_COLUMNS, columnCount(ws))
      endRow == Max(1, lastRow)
      styled(r, c) ==
        LET s0 == ws[r][c].style
            s1 == IF r <= endRow /\ c <= maxCol
                  THEN [s0 EXCEPT !.border = "thin"] ELSE s0
            s2 == IF r = 1 /\ c <= maxCol /\ HeaderFill(c) # ""
                  THEN [s1 EXCEPT !.fill = HeaderFill(c)] ELSE s1
            s3 == IF r = 1 /\ c <= maxCol
                  THEN [s2 EXCEPT !.alignment = "middle center wrap",
                                  !.font = [s2.font EXCEPT
                                              !.bold = TRUE, !.size = 14,
                                              !.color = headerFontColorByCol(c)]]
                  ELSE s2
        IN  IF r <= endRow /\ c = 1
            THEN [s3 EXCEPT !.font = [s3.font EXCEPT !.bold = TRUE]] ELSE s3
  IN  [r \in Rows |-> [c \in Cols |->
        [ws[r][c] EXCEPT !.style = styled(r, c)]]]

\* Line 435: ws.getColumn(maxCol).letter; getColumn(0) is undefined and the
\* read of its letter throws, after every other line of the pass has run.
FormatThrows(ws) == Min(CANDIDATE_MAX_COLUMNS, columnCount(ws)) <= 0

FormatMeta(ws, meta) ==
  LET maxCol == Min(CANDIDATE_MAX_COLUMNS, columnCount(ws))
  IN  [width |-> [c \in Cols |->
                    IF c <= maxCol THEN CANDIDATE_WIDTH ELSE meta.width[c]],
       height1 |-> 32, frozen |-> TRUE,
       autoFilterTo |-> IF FormatThrows(ws) THEN meta.autoFilterTo ELSE maxCol]

\* ------------------------------------------------- the inputs of the model
T_A == <<"A">>
T_Apad == <<" ", "A", " ">>
T_blank == <<" ", " ">>
NICK == <<"n", "i", "c", "k">>
BIRTH == <<"b", "i", "r", "t", "h">>

\* headerOrder as main passes it, with two legacy columns after it, and cut
\* to the base columns.
LongHeaderOrder ==
  CANDIDATE_OUTPUT_HEADER_ORDER \o << <<"L", "1">>, <<"L", "2">> >>
ShortHeaderOrder == SubSeq(CANDIDATE_OUTPUT_HEADER_ORDER, 1, 10)
HeaderOrders == {CANDIDATE_OUTPUT_HEADER_ORDER, LongHeaderOrder, ShortHeaderOrder}

\* Incoming records.
RecA == (CANDIDATE_KEY :> StrV(T_A)) @@ (NICK :> StrV(<<"x">>)) @@ (BIRTH :> DateV(1))
RecApad ==
  (CANDIDATE_KEY :> StrV(T_Apad)) @@ (NICK :> StrV(<<"y">>))
    @@ (JR_NO_ALIAS :> StrV(<<"J", "9">>))
Rec7 == (CANDIDATE_KEY :> NumV(7)) @@ (BIRTH :> DateV(NaN))
RecBlank ==
  (CANDIDATE_KEY :> StrV(T_blank)) @@ (NICK :> StrV(<<"z">>))
    @@ (JR_NO_ALIAS :> StrV(<<"J", "9">>))
RecNoKey == (NICK :> StrV(<<"m">>))
RecDateKey == (CANDIDATE_KEY :> DateV(2)) @@ (NICK :> StrV(<<"d">>))
Records == {RecA, RecApad, Rec7, RecBlank, RecNoKey, RecDateKey}

Batches == SeqsUpTo(Records, MaxBatch)

\* Rows of a starting sheet, each built for the row r it stands at.
TemplateStyle == [EmptyStyle EXCEPT !.look = "tpl", !.border = "thin"]

\* A row this program wrote for key "A" in an earlier run, with what a user
\* entered since: a JR number, a shortlist date, a resume formula, and a cell
\* in a legacy column beyond the cap.
ProgramRow(r) ==
  LET written == WriteRecordRow(
                   [x \in Rows |-> [c \in Cols |->
                      IF c <= CANDIDATE_MAX_COLUMNS
                      THEN [EmptyCell EXCEPT !.style = TemplateStyle]
                      ELSE EmptyCell]],
                   r, (CANDIDATE_KEY :> StrV(T_A)) @@ (NICK :> StrV(<<"a">>)),
                   BaseColsInfo(CANDIDATE_OUTPUT_HEADER_ORDER))[r]
  IN  [written EXCEPT
         ![JrNoCol].value = StrV(<<"J", "1">>),
         ![22].value = DateV(9),
         ![32].value = FormulaV(<<"L", "O", "G", "1", "0", "(", "G">>
                                  \o NumToString(r) \o <<")">>),
         ![39].value = StrV(<<"o", "l", "d">>)]

\* A hand-made row for key 7: literals where the program writes formulas, a
\* validation rule and a number format of the user's own.
LegacyRow(r) ==
  [EmptyRow EXCEPT
     ![7].value = NumV(7),
     ![6].value = StrV(<<"b">>),
     ![12].value = StrV(<<"B", "U", "1">>),
     ![12].style = [EmptyStyle EXCEPT !.look = "old"],
     ![22].value = StrV(<<"u">>),
     ![22].dataValidation = "list yes,no",
     ![22].style = [EmptyStyle EXCEPT !.numFmt = "@"],
     ![32].value = StrV(<<"c", "v">>)]

\* A row with neither key nor base data: the scan passes over it.
OrphanRow(r) ==
  [EmptyRow EXCEPT
     ![12].value = StrV(<<"x">>),
     ![22].value = StrV(<<"o">>),
     ![23].dataValidation = "list yes,no",
     ![40].value = StrV(<<"o", "l", "d">>)]

\* A row with base data and no key.
BaseOnlyRow(r) ==
  [EmptyRow EXCEPT
     ![6].value = StrV(<<"n">>),
     ![JrNoCol].value = StrV(<<"J", "2">>)]

RowKinds == {"program", "legacy", "orphan", "baseOnly"}

RowOfKind(kind, r) ==
  IF kind = "program" THEN ProgramRow(r)
  ELSE IF kind = "legacy" THEN LegacyRow(r)
  ELSE IF kind = "orphan" THEN OrphanRow(r)
  ELSE BaseOnlyRow(r)

\* The starting sheet whose data rows 2, 3, ... are of the given kinds; its
\* header row is the one an earlier run wrote.
SheetOfKinds(kinds) ==
  [r \in Rows |->
     IF r = 1 /\ Len(kinds) > 0
     THEN [c \in Cols |->
             IF c <= CANDIDATE_MAX_COLUMNS
             THEN [EmptyCell EXCEPT !.value = StrV(CANDIDATE_OUTPUT_HEADER_ORDER[c])]
             ELSE IF c = 39 THEN [EmptyCell EXCEPT !.value = StrV(<<"L", "1">>)]
             ELSE EmptyCell]
     ELSE IF r >= 2 /\ r - 1 <= Len(kinds) THEN RowOfKind(kinds[r - 1], r)
     ELSE EmptyRow]

StartSheets == {SheetOfKinds(k) : k \in SeqsUpTo(RowKinds, MaxInitRows)}

\* ------------------------------------------------------------------ state
VARIABLES
  ws,           \* the candidate sheet: ws[r][c] is the cell of row r, column c
  meta,         \* the sheet's widths, header height, view and autofilter
  headerOrder,  \* upsert's headerOrder argument
  incoming,     \* upsert's incoming argument, the batch
  pc,           \* where the run stands: idle, loop, returned, threw, formatted
  idx,          \* the loop's position in incoming (1-based)
  keyCol,       \* the key column's number
  baseColsInfo, \* the base columns the header holds: <<[h, c], ...>>
  keyToRow,     \* the Key Index
  lastDataRow,  \* the Last Data Row pointer
  scanLast,     \* lastDataRow as the scan left it
  ret,          \* the value upsert returned
  run,          \* the number of upsert calls begun
  before,       \* the sheet as the current call received it
  chained,      \* the current call received the sheet the previous call returned
  prevRet,      \* the value the previous call returned
  fUnits,       \* shifter: the units of the formula handed to shiftFormulaRows
  fDelta,       \* shifter: the row delta
  fOut,         \* shifter: the returned text
  fpc,          \* shifter: off, ready or done
  cFrom,        \* cloner: the fromRow argument
  cTo,          \* cloner: the toRow argument
  cMax,         \* cloner: the maxCol argument
  cpc,          \* cloner: off, ready or done
  heap,         \* objects: heap[id] is the content of the object id
  aSrc,         \* objects: the source cell, its style, validation and value
  aDst,         \* objects: the destination cell
  aCol,         \* objects: the column of the two cells
  aLast,        \* objects: the cell the last change was made through
  aMuts,        \* objects: the number of changes made after the clone
  apc,          \* objects: off, ready or cloned
  rpc,          \* runs: rpc[p] is where run p of main stands
  marker,       \* runs: the run whose lock marker exists, 0 when none exists
  file,         \* runs: the output file
  polls,        \* runs: polls[p] counts the waits of run p in acquireLock
  mem,          \* runs: mem[p] is the workbook run p holds in memory
  erred,        \* runs: erred[p] says a step of run p's try block threw
  writes,       \* runs: writes[p] counts run p's writes of the output file
  readOut,      \* runs: readOut[p] says run p has read the output file
  stages,       \* runs: stages[p] lists the stages run p has completed
  hSheet,       \* header detection: the rows of the input sheet's range
  hStart,       \* header detection: the first row of the range (0-based)
  hOut,         \* header detection: what findHeaderRowInfo returned
  hpc           \* header detection: "off", "ready" or "done"

sheetVars ==
  <<ws, meta, headerOrder, incoming, pc, idx, keyCol, baseColsInfo, keyToRow,
    lastDataRow, scanLast, ret, run, before, chained, prevRet>>
shiftVars == <<fUnits, fDelta, fOut, fpc>>
cloneVars == <<cFrom, cTo, cMax, cpc>>
aliasVars == <<heap, aSrc, aDst, aCol, aLast, aMuts, apc>>
runVars == <<rpc, marker, file, polls, mem, erred, writes, readOut, stages>>
headVars == <<hSheet, hStart, hOut, hpc>>
vars == <<sheetVars, shiftVars, cloneVars, aliasVars, runVars, headVars>>

NoKeys == [k \in {} |-> 0]

ShiftOff ==
  /\ fUnits = <<>>
  /\ fDelta = 0
  /\ fOut = <<>>
  /\ fpc = "off"

CloneOff ==
  /\ cFrom = 0
  /\ cTo = 0
  /\ cMax = 0
  /\ cpc = "off"

AliasOff ==
  /\ heap = <<>>
  /\ aSrc = <<>>
  /\ aDst = <<>>
  /\ aCol = 0
  /\ aLast = "none"
  /\ aMuts = 0
  /\ apc = "off"

HeadOff ==
  /\ hSheet = <<>>
  /\ hStart = 0
  /\ hOut = <<>>
  /\ hpc = "off"

RunOff ==
  /\ stages = <<>>
  /\ rpc = <<>>
  /\ marker = 0
  /\ file = <<>>
  /\ polls = <<>>
  /\ mem = <<>>
  /\ erred = <<>>
  /\ writes = <<>>
  /\ readOut = <<>>

Init ==
  /\ ws \in StartSheets
  /\ meta = NoMeta
  /\ headerOrder \in HeaderOrders
  /\ incoming \in Batches
  /\ pc = "idle"
  /\ idx = 0
  /\ keyCol = 0
  /\ baseColsInfo = <<>>
  /\ keyToRow = NoKeys
  /\ lastDataRow = 0
  /\ scanLast = 0
  /\ ret = 0
  /\ run = 0
  /\ before = ws
  /\ chained = FALSE
  /\ prevRet = 0
  /\ ShiftOff
  /\ CloneOff
  /\ AliasOff
  /\ RunOff
  /\ HeadOff

\* Lines 256-289: the call up to the end of the scan of the existing rows.
UpsertBegin ==
  /\ pc \in {"idle", "returned"}
  /\ run < MaxRuns
  /\ run' = run + 1
  /\ before' = ws
  /\ chained' = (pc = "returned")
  /\ prevRet' = ret
  /\ IF MaxColOf(headerOrder) <= 0
     THEN /\ pc' = "returned"
          /\ ret' = 1
          /\ UNCHANGED <<ws, idx, keyCol, baseColsInfo, keyToRow, lastDataRow,
                         scanLast>>
     ELSE /\ ws' = WriteHeader(ws, headerOrder, MaxColOf(headerOrder))
          /\ keyCol' = KeyColOf(headerOrder)
          /\ IF keyCol' = 0
             THEN /\ pc' = "threw"
                  /\ UNCHANGED <<ret, idx, baseColsInfo, keyToRow, lastDataRow,
                                 scanLast>>
             ELSE /\ pc' = "loop"
                  /\ baseColsInfo' = BaseColsInfo(headerOrder)
                  /\ keyToRow' = ScanKeyToRow(ws', keyCol')
                  /\ lastDataRow' =
                       ScanLastDataRow(ws', keyCol', BaseColSet(baseColsInfo'))
                  /\ scanLast' = lastDataRow'
                  /\ idx' = 1
                  /\ UNCHANGED ret
  /\ UNCHANGED <<meta, headerOrder, incoming, shiftVars, cloneVars, aliasVars, runVars, headVars>>

\* A variant of RecordKey that does not trim.
RecordKeyUntrimmed(row) ==
  IF Field(row, CANDIDATE_KEY) = Null THEN <<>>
  ELSE JsString(Field(row, CANDIDATE_KEY))

\* Line 292: the record's key.
RecordKey(row) == safeStr(Field(row, CANDIDATE_KEY))

\* A variant of TargetOf that gives row 2 for a key the index does not hold.
TargetOfOrRow2(index, key) == IF key \in DOMAIN index THEN index[key] ELSE 2

\* Line 295: keyToRow.get(key), 0 standing for undefined.
TargetOf(index, key) == IF key \in DOMAIN index THEN index[key] ELSE 0

\* A variant of RegisterKey that forgets the key.
RegisterKeyForget(index, key, targetRow) == index

\* Line 307: keyToRow.set(key, targetRow).
RegisterKey(index, key, targetRow) ==
  [k \in DOMAIN index \cup {key} |-> IF k = key THEN targetRow ELSE index[k]]

\* Lines 291-390: one turn of the loop over incoming.
UpsertRecord ==
  /\ pc = "loop"
  /\ idx <= Len(incoming)
  /\ idx' = idx + 1
  /\ LET row == incoming[idx]
         key == RecordKey(row)
         isNew == TargetOf(keyToRow, key) = 0
         targetRow == IF isNew THEN lastDataRow + 1 ELSE TargetOf(keyToRow, key)
     IN  IF Len(key) = 0
         THEN UNCHANGED <<ws, keyToRow, lastDataRow>>
         ELSE /\ targetRow <= SheetRows
              /\ ws' = WriteRecordRow(
                         IF isNew
                         THEN NewRow(ws, row, lastDataRow, MaxColOf(headerOrder))
                         ELSE ws,
                         targetRow, row, baseColsInfo)
              /\ keyToRow' = IF isNew THEN RegisterKey(keyToRow, key, targetRow)
                             ELSE keyToRow
              /\ lastDataRow' = IF isNew THEN targetRow ELSE lastDataRow
  /\ UNCHANGED <<meta, headerOrder, incoming, pc, keyCol, baseColsInfo, scanLast,
                 ret, run, before, chained, prevRet, shiftVars, cloneVars, aliasVars, runVars, headVars>>

\* Line 392.
UpsertReturn ==
  /\ pc = "loop"
  /\ idx > Len(incoming)
  /\ pc' = "returned"
  /\ ret' = lastDataRow
  /\ UNCHANGED <<ws, meta, headerOrder, incoming, idx, keyCol, baseColsInfo,
                 keyToRow, lastDataRow, scanLast, run, before, chained, prevRet,
                 shiftVars, cloneVars, aliasVars, runVars, headVars>>

\* main, line 607: the formatting pass on the returned row count.
Format ==
  /\ pc = "returned"
  /\ pc' = IF FormatThrows(ws) THEN "formatThrew" ELSE "formatted"
  /\ ws' = FormatCells(ws, ret)
  /\ meta' = FormatMeta(ws, meta)
  /\ UNCHANGED <<headerOrder, incoming, idx, keyCol, baseColsInfo, keyToRow,
                 lastDataRow, scanLast, ret, run, before, chained, prevRet,
                 shiftVars, cloneVars, aliasVars, runVars, headVars>>

Next == UpsertBegin \/ UpsertRecord \/ UpsertReturn \/ Format

Spec == Init /\ [][Next]_vars

\* ---------------------------------------------- the shifter's specification
SheetOff ==
  /\ ws = EmptySheet
  /\ meta = NoMeta
  /\ headerOrder = <<>>
  /\ incoming = <<>>
  /\ pc = "off"
  /\ idx = 0
  /\ keyCol = 0
  /\ baseColsInfo = <<>>
  /\ keyToRow = NoKeys
  /\ lastDataRow = 0
  /\ scanLast = 0
  /\ ret = 0
  /\ run = 0
  /\ before = EmptySheet
  /\ chained = FALSE
  /\ prevRet = 0

InitShift ==
  /\ SheetOff
  /\ CloneOff
  /\ AliasOff
  /\ RunOff
  /\ HeadOff
  /\ fUnits \in SeqsUpTo(Units, MaxUnits) \ {<<>>}
  /\ fDelta \in 0..MaxDelta
  /\ fOut = <<>>
  /\ fpc = "ready"

\* One call of shiftFormulaRows(formula, rowDelta).
Shift ==
  /\ fpc = "ready"
  /\ fOut' = shiftFormulaRows(FormulaText(fUnits), fDelta)
  /\ fpc' = "done"
  /\ UNCHANGED <<fUnits, fDelta, sheetVars, cloneVars, aliasVars, runVars, headVars>>

SpecShift == InitShift /\ [][Shift]_vars

\* ------------------------------- the upsert on headers without the key
\* The output header order with another name in the key's place.
KeylessHeaderOrder ==
  [c \in 1..Len(CANDIDATE_OUTPUT_HEADER_ORDER) |->
     IF normalizeHeader(CANDIDATE_OUTPUT_HEADER_ORDER[c]) = CANDIDATE_KEY
     THEN <<"x">>
     ELSE CANDIDATE_OUTPUT_HEADER_ORDER[c]]

\* The headerOrder arguments: none, ten columns without the key, all columns
\* without the key, the key only beyond the column cap, and ten columns with
\* the key.
KeyHeaderOrders ==
  {<<>>, SubSeq(KeylessHeaderOrder, 1, 10), KeylessHeaderOrder,
   KeylessHeaderOrder \o <<CANDIDATE_KEY>>, ShortHeaderOrder}

InitKey ==
  /\ ws \in StartSheets
  /\ meta = NoMeta
  /\ headerOrder \in KeyHeaderOrders
  /\ incoming \in Batches
  /\ pc = "idle"
  /\ idx = 0
  /\ keyCol = 0
  /\ baseColsInfo = <<>>
  /\ keyToRow = NoKeys
  /\ lastDataRow = 0
  /\ scanLast = 0
  /\ ret = 0
  /\ run = 0
  /\ before = ws
  /\ chained = FALSE
  /\ prevRet = 0
  /\ ShiftOff
  /\ CloneOff
  /\ AliasOff
  /\ RunOff
  /\ HeadOff

SpecKey == InitKey /\ [][Next]_vars

\* ------------------------------------- the formatting pass on its own
\* applyCandidateFormattingWithExcelJS(ws, lastRow) on every starting sheet
\* and lastRow (ret) from 0 to the row below the last starting row, then a
\* second time on what the first call left.
InitFormat ==
  /\ ws \in StartSheets
  /\ before = ws
  /\ meta = NoMeta
  /\ headerOrder = <<>>
  /\ incoming = <<>>
  /\ pc = "returned"
  /\ idx = 0
  /\ keyCol = 0
  /\ baseColsInfo = <<>>
  /\ keyToRow = NoKeys
  /\ lastDataRow = 0
  /\ scanLast = 0
  /\ ret \in 0..(MaxInitRows + 2)
  /\ run = 0
  /\ chained = FALSE
  /\ prevRet = 0
  /\ ShiftOff
  /\ CloneOff
  /\ AliasOff
  /\ RunOff
  /\ HeadOff

Reformat ==
  /\ pc \in {"formatted", "formatThrew"}
  /\ pc' = IF FormatThrows(ws) THEN "reformatThrew" ELSE "reformatted"
  /\ ws' = FormatCells(ws, ret)
  /\ meta' = FormatMeta(ws, meta)
  /\ UNCHANGED <<headerOrder, incoming, idx, keyCol, baseColsInfo, keyToRow,
                 lastDataRow, scanLast, ret, run, before, chained, prevRet,
                 shiftVars, cloneVars, aliasVars, runVars, headVars>>

NextFormat == Format \/ Reformat
SpecFormat == InitFormat /\ [][NextFormat]_vars

\* ----------------------------------------------- the cloner's specification
\* The rows cloneCandidateRowTemplate is called on: the header row, the rows
\* of the starting sheet and the rows below them.
CloneRowsOf == 1..(MaxInitRows + 2)

InitClone ==
  /\ ws \in StartSheets
  /\ before = ws
  /\ meta = NoMeta
  /\ headerOrder = <<>>
  /\ incoming = <<>>
  /\ pc = "off"
  /\ idx = 0
  /\ keyCol = 0
  /\ baseColsInfo = <<>>
  /\ keyToRow = NoKeys
  /\ lastDataRow = 0
  /\ scanLast = 0
  /\ ret = 0
  /\ run = 0
  /\ chained = FALSE
  /\ prevRet = 0
  /\ cFrom \in CloneRowsOf
  /\ cTo \in CloneRowsOf
  /\ cMax \in {MaxColOf(h) : h \in HeaderOrders}
  /\ cpc = "ready"
  /\ ShiftOff
  /\ AliasOff
  /\ RunOff
  /\ HeadOff

\* One call of cloneCandidateRowTemplate(ws, fromRow, toRow, maxCol).
Clone ==
  /\ cpc = "ready"
  /\ ws' = cloneCandidateRowTemplate(ws, cFrom, cTo, cMax)
  /\ cpc' = "done"
  /\ UNCHANGED <<before, meta, headerOrder, incoming, pc, idx, keyCol,
                 baseColsInfo, keyToRow, lastDataRow, scanLast, ret, run,
                 chained, prevRet, cFrom, cTo, cMax, shiftVars, aliasVars,
                 runVars, headVars>>

SpecClone == InitClone /\ [][Clone]_vars

\* ------------------------------------------------- objects and references
\* The cloner seen at the level of object identity. The heap is a sequence of
\* objects, a reference is an index into it (0: none). An object is
\* [kind, a, ref]: a is its own content, ref the object nested in it (the font
\* of a style, the formulae array of a data validation). A cell holds the
\* reference of its style, the reference of its data validation (0: none) and
\* a value [t, n]: null, a primitive n, or the reference n of an object.
MaxMutations == 2
NaNTime == 0 - 1

Obj(kind, a, ref) == [kind |-> kind, a |-> a, ref |-> ref]
NullRef == [t |-> "null", n |-> 0]
PrimRef(n) == [t |-> "prim", n |-> n]
ObjRef(r) == [t |-> "ref", n |-> r]

\* A variant of CloneObject that copies the object but not what is nested in it.
CloneObjectShallow(h, r) ==
  [heap |-> Append(h, h[r]), ref |-> Len(h) + 1]

\* structuredClone(value) of an object: a new object, with a new copy of the
\* object nested in it.
CloneObject(h, r) ==
  IF h[r].ref = 0
    THEN [heap |-> Append(h, h[r]), ref |-> Len(h) + 1]
    ELSE LET h1 == Append(h, h[h[r].ref])
         IN [heap |-> Append(h1, [h[r] EXCEPT !.ref = Len(h1)]),
             ref |-> Len(h1) + 1]

\* cloneCellValue(value) on a value: an invalid Date gives null, a Date a new
\* Date of the same time, another object its structured clone, a primitive
\* itself.
CloneValueRef(h, v) ==
  IF v.t = "ref"
    THEN IF h[v.n].kind = "date"
           THEN IF h[v.n].a = NaNTime
                  THEN [heap |-> h, v |-> NullRef]
                  ELSE [heap |-> Append(h, Obj("date", h[v.n].a, 0)),
                        v |-> ObjRef(Len(h) + 1)]
           ELSE LET k == CloneObject(h, v.n)
                IN [heap |-> k.heap, v |-> ObjRef(k.ref)]
    ELSE [heap |-> h, v |-> v]

\* The row number of a formula's reference after the shift by rowDelta.
ShiftRowNumber(n, rowDelta) == IF n + rowDelta > 0 THEN n + rowDelta ELSE n

\* One iteration of cloneCandidateRowTemplate's loop, on column c: the heap
\* and the destination cell after it.
CloneCellRefs(h, src, dst, c, rowDelta) ==
  LET s == IF src.style # 0 THEN CloneObject(h, src.style)
           ELSE [heap |-> h, ref |-> dst.style]
      d == IF src.dv # 0 THEN CloneObject(s.heap, src.dv)
           ELSE [heap |-> s.heap, ref |-> dst.dv]
      v == IF c >= ResetFirst /\ c <= ResetLast
             THEN [heap |-> d.heap, v |-> NullRef]
           ELSE IF src.value.t = "ref" /\ d.heap[src.value.n].kind = "formula"
             THEN [heap |-> Append(d.heap,
                     Obj("formula", ShiftRowNumber(d.heap[src.value.n].a, rowDelta), 0)),
                   v |-> ObjRef(Len(d.heap) + 1)]
           ELSE CloneValueRef(d.heap, src.value)
  IN [heap |-> v.heap, cell |-> [style |-> s.ref, dv |-> d.ref, value |-> v.v]]

\* What a cell reads as: its style, data validation and value with every
\* reference followed.
Deref(h, r) ==
  IF r = 0 THEN <<"none", 0, <<>>>>
  ELSE <<h[r].kind, h[r].a,
         IF h[r].ref = 0 THEN <<>> ELSE <<h[h[r].ref].kind, h[h[r].ref].a>>>>
View(h, cell) ==
  [style |-> Deref(h, cell.style),
   dv |-> Deref(h, cell.dv),
   value |-> IF cell.value.t = "ref" THEN Deref(h, cell.value.n)
             ELSE <<cell.value.t, cell.value.n, <<>>>>]

\* The objects a change through a cell can reach: its style and the font in
\* it, its data validation and the formulae in it, the object of its value.
Reach(h, cell) ==
  LET direct == ({cell.style, cell.dv} \cup
                 (IF cell.value.t = "ref" THEN {cell.value.n} ELSE {})) \ {0}
  IN direct \cup ({h[r].ref : r \in direct} \ {0})

\* The heap before the call: the source's style (2, font 1), a style of the
\* destination's own (4, font 3), the source's data validation (6, formulae
\* 5), one of the destination's own (8, formulae 7) and the object of the
\* source's value (9).
StartHeap(valueObj) ==
  <<Obj("font", 0, 0), Obj("style", 0, 1), Obj("font", 1, 0), Obj("style", 1, 3),
    Obj("list", 0, 0), Obj("dv", 0, 5), Obj("list", 1, 0), Obj("dv", 1, 7),
    valueObj>>
ValueObjs ==
  {Obj("date", 5, 0), Obj("date", NaNTime, 0), Obj("rich", 0, 0),
   Obj("formula", 1, 0), Obj("formula", 2, 0)}

InitAlias ==
  /\ SheetOff
  /\ ShiftOff
  /\ RunOff
  /\ HeadOff
  /\ cFrom \in 2..3
  /\ cTo \in 2..3
  /\ cFrom # cTo
  /\ cMax = CANDIDATE_MAX_COLUMNS
  /\ cpc = "off"
  /\ aCol \in {7, ResetFirst}
  /\ \E vo \in ValueObjs : heap = StartHeap(vo)
  /\ \E sdv \in {0, 6} : \E sv \in {NullRef, PrimRef(3), ObjRef(9)} :
       aSrc = [style |-> 2, dv |-> sdv, value |-> sv]
  /\ \E dst \in {2, 4} : \E ddv \in {0, 6, 8} : \E dv \in {NullRef, PrimRef(4)} :
       aDst = [style |-> dst, dv |-> ddv, value |-> dv]
  /\ (aDst.dv = 6 => aSrc.dv = 6)
  /\ aLast = "none"
  /\ aMuts = 0
  /\ apc = "ready"

\* cloneCandidateRowTemplate on the column aCol of rows cFrom and cTo.
CloneRefs ==
  /\ apc = "ready"
  /\ LET k == CloneCellRefs(heap, aSrc, aDst, aCol, cTo - cFrom)
     IN /\ heap' = k.heap
        /\ aDst' = k.cell
  /\ apc' = "cloned"
  /\ UNCHANGED <<aSrc, aCol, aLast, aMuts, sheetVars, shiftVars, cloneVars, runVars, headVars>>

\* A later change made in place through one of the two cells: to its style
\* (cell.numFmt = ..., cell.font.bold = ...), to its data validation or to the
\* object of its value.
MutateInPlace ==
  /\ apc = "cloned"
  /\ aMuts < MaxMutations
  /\ \E side \in {"src", "dst"} :
       LET cell == IF side = "src" THEN aSrc ELSE aDst
       IN /\ \E r \in Reach(heap, cell) :
               heap' = [heap EXCEPT ![r].a = @ + 1]
          /\ aLast' = side
  /\ aMuts' = aMuts + 1
  /\ UNCHANGED <<aSrc, aDst, aCol, apc, sheetVars, shiftVars, cloneVars, runVars, headVars>>

\* A later assignment cell.value = ... to one of the two cells.
AssignValue ==
  /\ apc = "cloned"
  /\ aMuts < MaxMutations
  /\ \E side \in {"src", "dst"} :
       /\ IF side = "src"
            THEN aSrc' = [aSrc EXCEPT !.value = PrimRef(9)] /\ aDst' = aDst
            ELSE aDst' = [aDst EXCEPT !.value = PrimRef(9)] /\ aSrc' = aSrc
       /\ aLast' = side
  /\ aMuts' = aMuts + 1
  /\ UNCHANGED <<heap, aCol, apc, sheetVars, shiftVars, cloneVars, runVars, headVars>>

NextAlias == CloneRefs \/ MutateInPlace \/ AssignValue
SpecAlias == InitAlias /\ [][NextAlias]_vars

\* ------------------------------------------------------- the runs of main
\* Several runs of main on the same output file. The marker is 0 when the
\* lock file is absent, else the run that created it. The file is absent, or
\* holds the batches of the runs in content, or is partial: a write of it has
\* begun and not ended. mem[p] is the workbook run p holds in memory.
NumRuns == 2
MaxPolls == 2
Procs == 1..NumRuns

NoFile == [exists |-> FALSE, content |-> {}, partial |-> FALSE]
StoredFile(content) == [exists |-> TRUE, content |-> content, partial |-> FALSE]
PartialFile == [exists |-> TRUE, content |-> {}, partial |-> TRUE]

\* The stages of the try block between the load and the write.
StageOrder == <<"upsert", "format", "rewriteJR">>

\* A variant of AfterStage that goes on in the try block after a throw.
AfterStageGoesOn(ok, next) == next

\* Where a run is after a step of the try block: at the next step when the
\* step returned, at the finally block when it threw.
AfterStage(ok, next) == IF ok THEN next ELSE "release"

InitRun ==
  /\ HeadOff
  /\ SheetOff
  /\ ShiftOff
  /\ CloneOff
  /\ AliasOff
  /\ rpc = [p \in Procs |-> "start"]
  /\ marker = 0
  /\ file \in {NoFile, StoredFile({})}
  /\ polls = [p \in Procs |-> 0]
  /\ mem = [p \in Procs |-> {}]
  /\ erred = [p \in Procs |-> FALSE]
  /\ writes = [p \in Procs |-> 0]
  /\ readOut = [p \in Procs |-> FALSE]
  /\ stages = [p \in Procs |-> <<>>]

\* Line 577: fileExists(OUT_FILE); when it exists the readability check of
\* line 578 begins to read it.
Start(p) ==
  /\ rpc[p] = "start"
  /\ IF file.exists
     THEN /\ rpc' = [rpc EXCEPT ![p] = "prechecking"]
          /\ readOut' = [readOut EXCEPT ![p] = TRUE]
     ELSE /\ rpc' = [rpc EXCEPT ![p] = "acquire"]
          /\ UNCHANGED readOut
  /\ UNCHANGED <<marker, file, polls, mem, erred, writes, stages>>

\* Lines 578-580: readWorkbook(OUT_FILE) parses what the file holds; a file
\* whose write has not ended cannot be read and the run aborts.
PrecheckEnd(p) ==
  /\ rpc[p] = "prechecking"
  /\ rpc' = [rpc EXCEPT ![p] = IF file.partial THEN "failed" ELSE "acquire"]
  /\ UNCHANGED <<marker, file, polls, mem, erred, writes, readOut, stages>>

\* A variant of OpenCreates that opens the marker whether or not it exists.
OpenCreatesAnyway(p) ==
  /\ rpc[p] = "acquire"
  /\ marker' = p
  /\ rpc' = [rpc EXCEPT ![p] = "marking"]
  /\ UNCHANGED <<file, polls, mem, erred, writes, readOut, stages>>

\* Line 98: open(lockPath, "wx") creates the marker when there is none.
OpenCreates(p) ==
  /\ rpc[p] = "acquire"
  /\ marker = 0
  /\ marker' = p
  /\ rpc' = [rpc EXCEPT ![p] = "marking"]
  /\ UNCHANGED <<file, polls, mem, erred, writes, readOut, stages>>

\* Lines 103-105: the marker exists (EEXIST) and the timeout has not
\* elapsed: the run sleeps pollMs and tries again.
OpenPolls(p) ==
  /\ rpc[p] = "acquire"
  /\ marker # 0
  /\ polls[p] < MaxPolls
  /\ polls' = [polls EXCEPT ![p] = @ + 1]
  /\ UNCHANGED <<rpc, marker, file, mem, erred, writes, readOut, stages>>

\* Line 104: the marker exists and the timeout has elapsed.
OpenTimesOut(p) ==
  /\ rpc[p] = "acquire"
  /\ marker # 0
  /\ polls[p] >= MaxPolls
  /\ rpc' = [rpc EXCEPT ![p] = "timedout"]
  /\ UNCHANGED <<marker, file, polls, mem, erred, writes, readOut, stages>>

\* Lines 99-101: the marker's content is written, the descriptor closed.
MarkerWritten(p) ==
  /\ rpc[p] = "marking"
  /\ rpc' = [rpc EXCEPT ![p] = "locked"]
  /\ UNCHANGED <<marker, file, polls, mem, erred, writes, readOut, stages>>

\* Lines 99-103: fd.writeFile or fd.close throws; the error is not EEXIST,
\* acquireLock rethrows it, and line 590 is outside main's try block.
MarkerWriteFails(p) ==
  /\ rpc[p] = "marking"
  /\ rpc' = [rpc EXCEPT ![p] = "failed"]
  /\ UNCHANGED <<marker, file, polls, mem, erred, writes, readOut, stages>>

\* Lines 592-600: the workbook in memory is the file's when it exists and
\* can be read, a new one when there is no file.
LoadWorkbook(p) ==
  /\ rpc[p] = "locked"
  /\ ~file.partial
  /\ mem' = [mem EXCEPT ![p] = file.content]
  /\ readOut' = [readOut EXCEPT ![p] = file.exists \/ readOut[p]]
  /\ rpc' = [rpc EXCEPT ![p] = AfterStage(TRUE, "upsert")]
  /\ UNCHANGED <<marker, file, polls, erred, writes, stages>>

\* Line 596: readFile throws.
LoadFails(p) ==
  /\ rpc[p] = "locked"
  /\ file.exists
  /\ erred' = [erred EXCEPT ![p] = TRUE]
  /\ readOut' = [readOut EXCEPT ![p] = TRUE]
  /\ rpc' = [rpc EXCEPT ![p] = AfterStage(FALSE, "upsert")]
  /\ UNCHANGED <<marker, file, polls, mem, writes, stages>>

\* The step after the stage a run is at.
NextStep(stage) ==
  IF stage = "upsert" THEN "format"
  ELSE IF stage = "format" THEN "rewriteJR"
  ELSE "write"

\* Lines 602-609: the upsert (the run's batch enters the workbook in
\* memory), the formatting pass or the JR sheet rewrite returns.
StageReturns(p) ==
  /\ rpc[p] \in {"upsert", "format", "rewriteJR"}
  /\ mem' = [mem EXCEPT ![p] = IF rpc[p] = "upsert" THEN @ \cup {p} ELSE @]
  /\ stages' = [stages EXCEPT ![p] = Append(@, rpc[p])]
  /\ rpc' = [rpc EXCEPT ![p] = AfterStage(TRUE, NextStep(rpc[p]))]
  /\ UNCHANGED <<marker, file, polls, erred, writes, readOut>>

\* Lines 602-609: the upsert, the formatting pass or the JR sheet rewrite
\* throws.
StageThrows(p) ==
  /\ rpc[p] \in {"upsert", "format", "rewriteJR"}
  /\ erred' = [erred EXCEPT ![p] = TRUE]
  /\ rpc' = [rpc EXCEPT ![p] = AfterStage(FALSE, NextStep(rpc[p]))]
  /\ UNCHANGED <<marker, file, polls, mem, writes, readOut, stages>>

\* Line 611: writeFile begins to write the output file.
WriteBegin(p) ==
  /\ rpc[p] = "write"
  /\ file' = PartialFile
  /\ writes' = [writes EXCEPT ![p] = @ + 1]
  /\ rpc' = [rpc EXCEPT ![p] = "writing"]
  /\ UNCHANGED <<marker, polls, mem, erred, readOut, stages>>

\* Line 611: writeFile ends: the file holds the workbook in memory.
WriteEnd(p) ==
  /\ rpc[p] = "writing"
  /\ file' = StoredFile(mem[p])
  /\ rpc' = [rpc EXCEPT ![p] = AfterStage(TRUE, "release")]
  /\ UNCHANGED <<marker, polls, mem, erred, writes, readOut, stages>>

\* Line 611: writeFile throws and leaves what it had written.
WriteFails(p) ==
  /\ rpc[p] = "writing"
  /\ erred' = [erred EXCEPT ![p] = TRUE]
  /\ rpc' = [rpc EXCEPT ![p] = AfterStage(FALSE, "release")]
  /\ UNCHANGED <<marker, file, polls, mem, writes, readOut, stages>>

\* Lines 618-620 and 110-114: the finally block removes the marker; the run
\* ends, with the error of its try block if there was one.
Release(p) ==
  /\ rpc[p] = "release"
  /\ marker' = 0
  /\ rpc' = [rpc EXCEPT ![p] = IF erred[p] THEN "failed" ELSE "done"]
  /\ UNCHANGED <<file, polls, mem, erred, writes, readOut, stages>>

NextRun ==
  /\ UNCHANGED <<sheetVars, shiftVars, cloneVars, aliasVars, headVars>>
  /\ \E p \in Procs :
       \/ Start(p)
       \/ PrecheckEnd(p)
       \/ OpenCreates(p)
       \/ OpenPolls(p)
       \/ OpenTimesOut(p)
       \/ MarkerWritten(p)
       \/ MarkerWriteFails(p)
       \/ LoadWorkbook(p)
       \/ LoadFails(p)
       \/ StageReturns(p)
       \/ StageThrows(p)
       \/ WriteBegin(p)
       \/ WriteEnd(p)
       \/ WriteFails(p)
       \/ Release(p)

SpecRun == InitRun /\ [][NextRun]_vars

\* ------------------------------------------------------ header detection
\* The sheet of an input file: the rows of its range, from row hStart on;
\* a row is the sequence of its cells' texts, <<>> for a cell that is not
\* there.  JR_KEY is the ASCII stand-in of the Thai text of line 15, ZW of
\* the characters U+200B..U+200D.
MaxScanRows == 30
MaxLead == 31
JR_KEY == <<"j", "r", "/", "I", "D">>
ZW == "ZW"

\* Lines 472-474: the header without U+FEFF, zero-width characters and
\* whitespace.
cleanHeaderForDetection(h) == SelectSeq(h, LAMBDA ch : ~IsSpace(ch) /\ ch # ZW)

\* Lines 476-485.
detectTypeByHeaders(headers) ==
  LET hs == {cleanHeaderForDetection(headers[k]) : k \in 1..Len(headers)}
      isCandidate == CANDIDATE_KEY \in hs
      isJR == JR_KEY \in hs \/ <<"J", "R", "N", "o", ".">> \in hs
              \/ <<"J", "R", "N", "o">> \in hs
  IN  IF isCandidate /\ isJR THEN "BOTH"
      ELSE IF isCandidate THEN "CANDIDATE"
      ELSE IF isJR THEN "JR"
      ELSE "UNKNOWN"

\* Lines 134-145: the normalized texts of the row's cells, the empty ones
\* dropped; a row beyond the sheet has no cell.
getSheetHeadersAtRow(sheet, start, rowIndex) ==
  IF rowIndex < start \/ rowIndex - start + 1 > Len(sheet) THEN <<>>
  ELSE LET cells == sheet[rowIndex - start + 1]
           headers == [k \in 1..Len(cells) |-> normalizeHeader(cells[k])]
       IN  SelectSeq(headers, LAMBDA h : Len(h) > 0)

RECURSIVE ScanRows(_, _, _, _)
\* Lines 153-158: the loop from row on, then the fallback to the first row.
ScanRows(sheet, start, row, end) ==
  IF row > end
  THEN [headerRow |-> start,
        headers |-> getSheetHeadersAtRow(sheet, start, start),
        type |-> detectTypeByHeaders(getSheetHeadersAtRow(sheet, start, start))]
  ELSE LET headers == getSheetHeadersAtRow(sheet, start, row)
           type == detectTypeByHeaders(headers)
       IN  IF type # "UNKNOWN"
           THEN [headerRow |-> row, headers |-> headers, type |-> type]
           ELSE ScanRows(sheet, start, row + 1, end)

\* A variant of findHeaderRowInfo that scans every row of the range.
findHeaderRowInfoNoBound(sheet, start, maxScanRows) ==
  ScanRows(sheet, start, start, start + Len(sheet) - 1)

\* Lines 146-159, on a sheet with a range: range.s.r is start, range.e.r the
\* last row of the sheet.
findHeaderRowInfo(sheet, start, maxScanRows) ==
  ScanRows(sheet, start, start,
           Min(start + Len(sheet) - 1, start + maxScanRows - 1))

\* The rows of the input sheets: a title line, an empty row, the headers of
\* a candidate file, of a JR file (by its key, by "JR No.", by "JRNo"), of
\* both, and a candidate header whose key has a blank inside and a BOM in
\* front.
TitleRow == << <<"R", "e", "p", "o", "r", "t">> >>
HeaderRowKinds ==
  { TitleRow,
    << <<>>, <<>> >>,
    << NICK, <<" ">> \o CANDIDATE_KEY \o <<" ">> >>,
    << JR_KEY, NICK >>,
    << <<>>, JR_NO_ALIAS >>,
    << <<"J", "R", "N", "o">> >>,
    << CANDIDATE_KEY, JR_NO_ALIAS >>,
    << NICK, <<BOM, "i", " ", "d">> >>,
    << <<"J", "R", ZW, " ", " ", "N", "o", ".">> >> }

InitHeader ==
  /\ SheetOff
  /\ ShiftOff
  /\ CloneOff
  /\ AliasOff
  /\ RunOff
  /\ hStart \in {0, 2}
  /\ \E lead \in 0..MaxLead : \E tail \in SeqsUpTo(HeaderRowKinds, 2) :
       /\ Len(tail) >= 1
       /\ hSheet = [k \in 1..lead |-> TitleRow] \o tail
  /\ hOut = <<>>
  /\ hpc = "ready"

\* One call of findHeaderRowInfo(wb, sheetName) with the default maxScanRows.
FindHeader ==
  /\ hpc = "ready"
  /\ hOut' = findHeaderRowInfo(hSheet, hStart, MaxScanRows)
  /\ hpc' = "done"
  /\ UNCHANGED <<hSheet, hStart, sheetVars, shiftVars, cloneVars, aliasVars, runVars>>

SpecHeader == InitHeader /\ [][FindHeader]_vars

\* ------------------------------------------------------------------ claims
\* The sheet of the current call once its header row is written and the
\* columns beyond maxCol are cut, and the Key Index its scan gives.
HeaderWritten == WriteHeader(before, headerOrder, MaxColOf(headerOrder))
ScannedIndex == ScanKeyToRow(HeaderWritten, keyCol)

\* The non-empty keys of the batch, the positions of a key's records, the
\* last record of a key, and the keys more than one record carries.
BatchKeys == {RecordKey(incoming[k]) : k \in 1..Len(incoming)} \ {<<>>}
PositionsOf(key) == {k \in 1..Len(incoming) : RecordKey(incoming[k]) = key}
LastWith(key) == incoming[SetMax(PositionsOf(key))]
DupKeys == {key \in BatchKeys : Cardinality(PositionsOf(key)) >= 2}

\* The number format and the data validation the writes of lines 334-389
\* leave on column c of a written row, given what the cell had.
NumFmtAfter(c, old) ==
  IF c \in {18, 20, 22, 23, 24, 25, 26, 27, 28, 31} THEN "yyyy-mm-dd"
  ELSE IF c >= 33 /\ c <= 38 THEN "0"
  ELSE old
DVAfter(c, old) ==
  IF c >= 22 /\ c <= 28 THEN DV_DATE
  ELSE IF c = 29 THEN DV_CHANNEL
  ELSE IF c = 30 THEN DV_TURNDOWN_REASON
  ELSE IF c = 31 THEN DV_TURNDOWN_DATE
  ELSE old

\* C1: a second upsert with the same batch, on the sheet the first one
\* returned, leaves the sheet as it found it and returns the same lastDataRow.
C1_ReupsertIdempotent ==
  (pc = "returned" /\ chained) => (ws = before /\ ret = prevRet)

\* C2 as the specification states it: on the row of a matched key every
\* non-base cell is what it was before the call and every base cell holds the
\* record's value, the empty string when the record has none.
C2_MatchedRowOnlyBaseChanges ==
  pc = "returned" =>
    \A k \in 1..Len(incoming) :
      LET key == RecordKey(incoming[k])
      IN  (Len(key) > 0 /\ key \in DOMAIN ScannedIndex) =>
            \A c \in Cols :
              IF IsBaseCol(baseColsInfo, c)
              THEN ws[ScannedIndex[key]][c].value =
                     LET val == Field(incoming[k], BaseHeaderAt(baseColsInfo, c))
                     IN  IF val = Null THEN StrV(<<>>) ELSE val
              ELSE ws[ScannedIndex[key]][c] = before[ScannedIndex[key]][c]

\* C2, amended: on the row of a matched key, within columns 1..maxCol, every
\* base cell holds the value of the LAST record of the batch with that key
\* (the empty string when it has none or an invalid date), every derived
\* column (12..21, 33..38) holds the formula upsert writes for that row, and
\* every other cell keeps its value; styles are kept but for the number
\* formats of columns 18, 20, 22..28, 31 and 33..38, and data validations are
\* kept but for those of columns 22..31, which upsert sets again.
C2_MatchedRowWrites ==
  pc = "returned" =>
    \A key \in BatchKeys \cap DOMAIN ScannedIndex :
      LET r == ScannedIndex[key]
          last == LastWith(key)
      IN  \A c \in 1..MaxColOf(headerOrder) :
            /\ ws[r][c].value =
                 IF c \in DerivedCols THEN FormulaV(DerivedFormula(c, r))
                 ELSE IF IsBaseCol(baseColsInfo, c)
                      THEN BaseValue(last, BaseHeaderAt(baseColsInfo, c))
                      ELSE before[r][c].value
            /\ ws[r][c].style =
                 [before[r][c].style EXCEPT
                    !.numFmt = NumFmtAfter(c, before[r][c].style.numFmt)]
            /\ ws[r][c].dataValidation = DVAfter(c, before[r][c].dataValidation)

\* A matched row whose nickname the call replaced and whose manual entry in
\* column 22 and JR No. in column 11 it kept, the record carrying a JR No.
C2_Witness ==
  /\ pc = "returned"
  /\ \E key \in BatchKeys \cap DOMAIN ScannedIndex :
       LET r == ScannedIndex[key]
       IN  /\ MaxColOf(headerOrder) >= ResetFirst
           /\ ws[r][6].value # before[r][6].value
           /\ before[r][ResetFirst].value # Null
           /\ ws[r][ResetFirst].value = before[r][ResetFirst].value
           /\ Truthy(Field(LastWith(key), JR_NO_ALIAS))
           /\ ws[r][JrNoCol].value = before[r][JrNoCol].value
           /\ ws[r][JrNoCol].value # Field(LastWith(key), JR_NO_ALIAS)

\* C3 as the specification states it: a key several records of the batch
\* carry is held by exactly one row after the call (a row holds the key when
\* its key cell reads as the key, as the scan or as the loop reads a value),
\* and that row's base cells are the last such record's values.
C3_OneRowLastRecordWins ==
  pc = "returned" =>
    \A key \in DupKeys :
      LET holders == {r \in 2..SheetRows :
                        \/ RowKey(ws, r, keyCol) = key
                        \/ safeStr(ws[r][keyCol].value) = key}
      IN  /\ Cardinality(holders) = 1
          /\ \A r \in holders : \A k \in 1..Len(baseColsInfo) :
               ws[r][baseColsInfo[k].c].value =
                 BaseValue(LastWith(key), baseColsInfo[k].h)

\* C3, amended: for a key several records of the batch carry, the call writes
\* exactly one row, the row the Key Index maps the key to, and that row's base
\* cells are the values of the last such record (the empty string where it has
\* none or an invalid date); every other row the call changes is the row of
\* another key of the batch, so rows that already held the key elsewhere stay
\* as they were and more than one row may hold the key.
C3_LastRecordWinsOnIndexedRow ==
  pc = "returned" =>
    \A key \in DupKeys :
      /\ key \in DOMAIN keyToRow
      /\ \A k \in 1..Len(baseColsInfo) :
           ws[keyToRow[key]][baseColsInfo[k].c].value =
             BaseValue(LastWith(key), baseColsInfo[k].h)
      /\ \A r \in (2..SheetRows) \ {keyToRow[key]} :
           ws[r] # HeaderWritten[r] =>
             \E other \in BatchKeys \ {key} :
               other \in DOMAIN keyToRow /\ keyToRow[other] = r

\* Two records of one key with different nicknames, the row holding the later.
C3_Witness ==
  /\ pc = "returned"
  /\ \E key \in DupKeys :
       /\ key \in DOMAIN keyToRow
       /\ \E k \in PositionsOf(key) :
            Field(incoming[k], NICK) # Field(LastWith(key), NICK)
       /\ ws[keyToRow[key]][6].value = Field(LastWith(key), NICK)

\* The loop turn at hand appends a row cloned from a template row.
ClonesTemplate ==
  /\ pc = "loop"
  /\ idx <= Len(incoming)
  /\ Len(RecordKey(incoming[idx])) > 0
  /\ RecordKey(incoming[idx]) \notin DOMAIN keyToRow
  /\ lastDataRow >= 2
  /\ lastDataRow < SheetRows

C5_ResetRangeNull ==
  pc \in {"loop", "returned", "formatted"} =>
    \A r \in (scanLast + 1)..lastDataRow : \A c \in 22..31 :
      ws[r][c].value = Null

\* A row inserted where the sheet as received held a value in column 22 (an
\* entry below the last data row), or under a template row holding one.
C5_Witness ==
  /\ pc = "returned"
  /\ lastDataRow > scanLast
  /\ \/ before[scanLast + 1][22].value # Null
     \/ scanLast >= 2 /\ ws[scanLast][22].value # Null /\ MaxColOf(headerOrder) >= 22

\* The record's key is missing, empty or made of white space only.
KeyIsEmpty(row) ==
  \/ CANDIDATE_KEY \notin DOMAIN row
  \/ row[CANDIDATE_KEY] = Null
  \/ /\ row[CANDIDATE_KEY].t = "str"
     /\ \A i \in 1..Len(row[CANDIDATE_KEY].s) : row[CANDIDATE_KEY].s[i] = " "

\* C6: the loop turn of a record whose key is missing, empty or white space
\* changes no cell, leaves the Key Index and lastDataRow as they were, raises
\* nothing, and the loop goes on to the next record.
C6_EmptyKeyDropped ==
  [][(pc = "loop" /\ idx <= Len(incoming) /\ KeyIsEmpty(incoming[idx])) =>
       /\ ws' = ws
       /\ keyToRow' = keyToRow
       /\ lastDataRow' = lastDataRow
       /\ pc' = "loop"
       /\ idx' = idx + 1]_vars

\* A batch whose first record has a white-space key and whose second record
\* was appended as a new row, the call having returned.
C6_Witness ==
  /\ pc = "returned"
  /\ Len(incoming) = 2
  /\ KeyIsEmpty(incoming[1])
  /\ CANDIDATE_KEY \in DOMAIN incoming[1]
  /\ ~KeyIsEmpty(incoming[2])
  /\ RecordKey(incoming[2]) \in DOMAIN keyToRow
  /\ keyToRow[RecordKey(incoming[2])] = scanLast + 1
  /\ ret = scanLast + 1

\* C7: with a headerOrder of more than 38 names, after upsert and the
\* formatting pass the sheet has exactly 38 columns, the header row holds the
\* first 38 names, and no cell beyond column 38 holds data.
C7_TruncatedTo38 ==
  (pc = "formatted" /\ Len(headerOrder) > 38) =>
    /\ columnCount(ws) = 38
    /\ \A c \in 1..38 : ws[1][c].value = StrV(headerOrder[c])
    /\ \A r \in Rows : \A c \in Cols : c > 38 => ws[r][c].value = Null

\* A long headerOrder on a sheet that held data in column 39, formatted.
C7_Witness ==
  /\ pc = "formatted"
  /\ run = 1
  /\ Len(headerOrder) > 38
  /\ \E r \in Rows : before[r][39].value # Null

\* C8: a record with a new non-empty key is written to row lastDataRow + 1,
\* which becomes lastDataRow and the key's row in the Key Index; a record
\* with a matched key is written on its row and lastDataRow stays; no other
\* row changes; and the value returned is the scanned lastDataRow plus the
\* number of distinct new non-empty keys of the batch.
C8_AppendAndReturn ==
  /\ [](pc = "returned" =>
          /\ ret = lastDataRow
          /\ ret = scanLast + Cardinality(BatchKeys \ DOMAIN ScannedIndex))
  /\ [][(pc = "loop" /\ idx <= Len(incoming)
           /\ Len(RecordKey(incoming[idx])) > 0) =>
         LET key == RecordKey(incoming[idx])
             target == IF key \in DOMAIN keyToRow THEN keyToRow[key]
                       ELSE lastDataRow + 1
         IN  /\ lastDataRow' = IF key \in DOMAIN keyToRow THEN lastDataRow
                               ELSE lastDataRow + 1
             /\ key \in DOMAIN keyToRow'
             /\ keyToRow'[key] = target
             /\ \A other \in DOMAIN keyToRow :
                  other # key =>
                    other \in DOMAIN keyToRow' /\ keyToRow'[other] = keyToRow[other]
             /\ ws'[target][keyCol].value = BaseValue(incoming[idx], CANDIDATE_KEY)
             /\ \A r \in Rows \ {target} : ws'[r] = ws[r]]_vars

\* A batch of two records of one new key and, on a sheet holding a row, one
\* appended row: the returned value is the scanned lastDataRow plus one.
C8_Witness ==
  /\ pc = "returned"
  /\ scanLast >= 2
  /\ \E key \in DupKeys : key \notin DOMAIN ScannedIndex
  /\ ret = scanLast + 1

\* What C9 expects of a token: a reference whose row is not absolute has its
\* row raised by the delta, every other token keeps its text.
ShiftedToken(t, delta) ==
  IF t.kind = "ref" /\ ~t.abs THEN [t EXCEPT !.row = t.row + delta] ELSE t

ExpectedText(units, delta) ==
  LET tokens == TokensOf(units)
  IN  TextOfTokens([k \in 1..Len(tokens) |-> ShiftedToken(tokens[k], delta)])

\* sub occurs in s as a run of consecutive characters.
Occurs(sub, s) ==
  \E i \in 1..(Len(s) - Len(sub) + 1) : SubSeq(s, i, i + Len(sub) - 1) = sub

\* C9: shiftFormulaRows raises by delta the row of every reference whose row
\* is not absolute, keeps every absolute row, and alters no other text: the
\* returned text is the formula with exactly those rows raised.
C9_ShiftsRowsAndNothingElse ==
  fpc = "done" => fOut = ExpectedText(fUnits, fDelta)

\* C10: the digits inside function names, sheet names and defined names are
\* left unchanged: each such name of the formula still stands in the result.
C10_NamesKeepTheirDigits ==
  fpc = "done" =>
    \A k \in 1..Len(TokensOf(fUnits)) :
      TokensOf(fUnits)[k].kind \in {"func", "sheet", "name"}
        => Occurs(TokensOf(fUnits)[k].text, fOut)

\* C11: with delta 0 shiftFormulaRows returns the formula unchanged, and
\* applied to its own result it returns that result.
C11_ZeroDeltaIsIdentity ==
  (fpc = "done" /\ fDelta = 0) =>
    /\ fOut = FormulaText(fUnits)
    /\ shiftFormulaRows(fOut, 0) = fOut

\* C12: a call of cloneCandidateRowTemplate with fromRow # toRow changes only
\* cells of toRow in columns 1..maxCol: every other cell, those of fromRow
\* among them, has the value, style and data validation it had.
C12_CloneChangesOnlyDestination ==
  (cpc = "done" /\ cFrom # cTo) =>
    \A r \in Rows : \A c \in Cols :
      (r # cTo \/ c > cMax) => ws[r][c] = before[r][c]

\* A call that changed the destination row, from a source row holding a key,
\* on a sheet with content beyond maxCol in the destination row.
C12_Witness ==
  /\ cpc = "done"
  /\ cFrom # cTo
  /\ ws[cTo] # before[cTo]
  /\ before[cFrom][7].value # Null
  /\ \E c \in Cols : c > cMax /\ before[cTo][c].value # Null

\* C13: after cloneCandidateRowTemplate, a change made through the
\* destination cell (to its style, its data validation or its value) leaves
\* the style, data validation and value of the source cell as they were, and
\* a change made through the source cell leaves those of the destination.
C13_NoAliasing ==
  [][(apc = "cloned" /\ apc' = "cloned") =>
       /\ (aLast' = "dst" => View(heap', aSrc') = View(heap, aSrc))
       /\ (aLast' = "src" => View(heap', aDst') = View(heap, aDst))]_vars

\* After the clone of a source with a data validation and an object value,
\* onto a destination that shared the source's style object, the font in the
\* destination's style has been changed in place.
C13_Witness ==
  /\ apc = "cloned"
  /\ aLast = "dst"
  /\ aSrc.dv # 0
  /\ aSrc.value.t = "ref"
  /\ aDst.value.t = "ref"
  /\ heap[heap[aDst.style].ref].a # heap[heap[aSrc.style].ref].a
  /\ heap[aDst.style].a = heap[aSrc.style].a

\* The business-key column is absent from the columns in use, the first
\* min(38, length) names of headerOrder.
KeyAbsentInUse ==
  \A c \in 1..Len(headerOrder) :
    c <= CANDIDATE_MAX_COLUMNS => normalizeHeader(headerOrder[c]) # CANDIDATE_KEY

\* C14: whenever the key column is absent from the columns in use (an empty
\* headerOrder and a key beyond the column cap included), a call of upsert
\* ends with the missing-key-column error and returns no lastDataRow.
C14_MissingKeyFails ==
  (run >= 1 /\ KeyAbsentInUse) => pc = "threw"

\* C15: after a call of upsert that failed on the missing key column, the
\* sheet in memory (header row, column count, every cell) is as it was
\* before the call.
C15_FailureLeavesSheet ==
  pc = "threw" => ws = before

\* The per-record manual-entry columns: JR No. and the tracking columns.
ManualCols == {JrNoCol} \cup (ResetFirst..(ResetLast + 1))

OutputSteps ==
  {"prechecking", "locked", "upsert", "format", "rewriteJR", "write", "writing"}

\* C17: a run at a step that loads, mutates or persists the output workbook
\* holds the lock marker it created and has not removed, and no two runs are
\* at such steps at the same time.
C17_OutputStepsUnderLock ==
  /\ \A p \in Procs : rpc[p] \in OutputSteps => marker = p
  /\ \A p \in Procs : \A q \in Procs :
       (p # q /\ rpc[p] \in OutputSteps) => rpc[q] \notin OutputSteps

\* C18: a run that has ended, with or without an error, has not left behind
\* the lock marker it created.
C18_EndedRunLeftNoMarker ==
  \A p \in Procs : rpc[p] \in {"done", "failed", "timedout"} => marker # p

\* C19: a run whose acquireLock timed out has polled no more often than the
\* timeout allows, and has neither loaded (read) the output workbook, nor
\* completed a stage on it, nor written it.
C19_TimedOutRunTouchedNothing ==
  \A p \in Procs :
    rpc[p] = "timedout" =>
      /\ polls[p] <= MaxPolls
      /\ ~readOut[p]
      /\ stages[p] = <<>>
      /\ writes[p] = 0

\* C20: a run writes the output file at most once, and only once its upsert,
\* formatting pass and JR sheet rewrite have all returned; a run one of whose
\* steps before the write threw never writes, and the file changes only in a
\* step of a run that is writing it.
C20_SinglePersistence ==
  /\ [](\A p \in Procs :
          /\ writes[p] <= 1
          /\ writes[p] = 1 => stages[p] = StageOrder
          /\ (erred[p] /\ stages[p] # StageOrder) => writes[p] = 0)
  /\ [][file' # file =>
          \E p \in Procs :
            /\ rpc[p] \in {"write", "writing"}
            /\ stages[p] = StageOrder
            /\ writes'[p] = 1]_vars

\* One run has written the file and ended; the other, which loaded that
\* file, threw in a stage and ended, and the file is still the first run's.
C20_Witness ==
  \E p \in Procs : \E q \in Procs :
    /\ rpc[p] = "done"
    /\ writes[p] = 1
    /\ rpc[q] = "failed"
    /\ mem[q] # {}
    /\ erred[q]
    /\ Len(stages[q]) \in 1..2
    /\ writes[q] = 0
    /\ file = StoredFile({p})

\* The formatting pass changes no cell value.
FormatKeepsValues ==
  \A r \in Rows : \A c \in Cols : ws'[r][c].value = ws[r][c].value

CellsOfRow(r) == {hSheet[r - hStart + 1][k] : k \in 1..Len(hSheet[r - hStart + 1])}
ScannedRows ==
  {r \in hStart..(hStart + Len(hSheet) - 1) : r - hStart < MaxScanRows}

\* The scanned rows whose normalized headers contain a key.
NormCand(r) == \E h \in CellsOfRow(r) : normalizeHeader(h) = CANDIDATE_KEY
NormJr(r) == \E h \in CellsOfRow(r) : normalizeHeader(h) \in {JR_KEY, JR_NO_ALIAS}
NormHits == {r \in ScannedRows : NormCand(r) \/ NormJr(r)}

\* C22 as the specification states it: the row returned is the first of the
\* scanned rows whose normalized headers contain the candidate key or a JR
\* key ("JR No." or the JR key), classified by the keys they contain; with no
\* such row it is the first row, classified UNKNOWN.
C22_FirstRowByNormalizedHeaders ==
  hpc = "done" =>
    IF NormHits = {}
    THEN hOut.headerRow = hStart /\ hOut.type = "UNKNOWN"
    ELSE LET r == CHOOSE x \in NormHits : \A y \in NormHits : x <= y
         IN  /\ hOut.headerRow = r
             /\ hOut.type = IF NormCand(r) /\ NormJr(r) THEN "BOTH"
                            ELSE IF NormCand(r) THEN "CANDIDATE" ELSE "JR"

\* The scanned rows in which a header is a key once U+FEFF, zero-width
\* characters and all whitespace are removed from it.
Squeezed(h) == SelectSeq(h, LAMBDA ch : ch \notin {" ", BOM, ZW})
SqueezedCand(r) == \E h \in CellsOfRow(r) : Squeezed(h) = CANDIDATE_KEY
SqueezedJr(r) ==
  \E h \in CellsOfRow(r) :
    Squeezed(h) \in {JR_KEY, Squeezed(JR_NO_ALIAS), <<"J", "R", "N", "o">>}
SqueezedHits == {r \in ScannedRows : SqueezedCand(r) \/ SqueezedJr(r)}

\* C22, amended: the row returned is the first of the scanned rows (at most
\* the first 30 rows of the sheet's range) in which some header, once U+FEFF,
\* zero-width characters and ALL whitespace are removed from it, is the
\* candidate key, the JR key, "JRNo." or "JRNo"; its classification is
\* CANDIDATE, JR or BOTH by the keys found that way; with no such row the
\* result is the first row of the range, classified UNKNOWN.
C22_FirstRowBySqueezedHeaders ==
  hpc = "done" =>
    IF SqueezedHits = {}
    THEN hOut.headerRow = hStart /\ hOut.type = "UNKNOWN"
    ELSE LET r == CHOOSE x \in SqueezedHits : \A y \in SqueezedHits : x <= y
         IN  /\ hOut.headerRow = r
             /\ hOut.type = IF SqueezedCand(r) /\ SqueezedJr(r) THEN "BOTH"
                            ELSE IF SqueezedCand(r) THEN "CANDIDATE" ELSE "JR"

\* The scan stopped on the last row it covers, the thirtieth of the range,
\* a row found only once the blank inside its key is removed, with a row
\* holding the exact key below it.
C22_Witness ==
  /\ hpc = "done"
  /\ hOut.headerRow = hStart + MaxScanRows - 1
  /\ hOut.type = "CANDIDATE"
  /\ ~NormCand(hOut.headerRow)
  /\ Len(hSheet) > MaxScanRows
  /\ NormCand(hStart + MaxScanRows)

\* Row r of the sheet s has neither a key nor base data, as the scan reads
\* the cells.
BlankRowOf(s, r) ==
  /\ Len(excelCellValueToString(s[r][keyCol].value)) = 0
  /\ \A k \in 1..Len(baseColsInfo) :
       Len(excelCellValueToString(s[r][baseColsInfo[k].c].value)) = 0

Holders(key) ==
  {r \in Rows : r >= 2 /\ excelCellValueToString(HeaderWritten[r][keyCol].value) = key}
HeldKeys ==
  {excelCellValueToString(HeaderWritten[r][keyCol].value) : r \in Rows \ {1}} \ {<<>>}
SharedKeys == {key \in HeldKeys : Cardinality(Holders(key)) >= 2}

\* C24: when several existing rows hold the same key, the Key Index maps the
\* key to the highest of them after the scan; a record of the batch with
\* that key updates that row (its base cells are the last such record's
\* values), and the earlier rows with the key are after the call what they
\* were: not changed, merged or removed.
C24_HighestDuplicateWins ==
  (keyCol # 0 /\ pc \in {"loop", "returned"}) =>
    \A key \in SharedKeys :
      LET top == SetMax(Holders(key))
      IN  /\ (pc = "loop" /\ idx = 1) => keyToRow[key] = top
          /\ (pc = "returned" /\ key \in BatchKeys) =>
               /\ \A r \in Holders(key) \ {top} : ws[r] = HeaderWritten[r]
               /\ \A k \in 1..Len(baseColsInfo) :
                    ws[top][baseColsInfo[k].c].value =
                      BaseValue(LastWith(key), baseColsInfo[k].h)

\* Two rows held the key of a record of the batch: the call changed the
\* nickname of the lower one of the sheet (the higher row number) and left
\* the other row as it was.
C24_Witness ==
  /\ pc = "returned"
  /\ keyCol # 0
  /\ \E key \in SharedKeys \cap BatchKeys :
       LET top == SetMax(Holders(key))
       IN  /\ ws[top][6].value # HeaderWritten[top][6].value
           /\ \E r \in Holders(key) \ {top} :
                /\ ws[r] = HeaderWritten[r]
                /\ ws[r][6].value # ws[top][6].value

\* The rows of the cell references of a formula text whose row part is not
\* absolute (no "$" before the digits), and of those whose row part is.
RelativeRows(f) ==
  {NumberOf(MatchAt(f, q).rowStr) : q \in {x \in MatchStarts(f) : ~MatchAt(f, x).rowAbs}}
AbsoluteRows(f) ==
  {NumberOf(MatchAt(f, q).rowStr) : q \in {x \in MatchStarts(f) : MatchAt(f, x).rowAbs}}

\* The rows the records of the batch matched, and the rows the call created.
MatchedRows == {ScannedIndex[key] : key \in BatchKeys \cap DOMAIN ScannedIndex}
CreatedRows == {r \in Rows : r > scanLast /\ r <= ret}

\* C25: after upsert, on every row r a record matched or created, each cell
\* of the derived columns 12..21 and 33..38 holds a formula all of whose
\* references with a non-absolute row are to row r.
C25_DerivedFormulasRowCorrect ==
  (pc = "returned" /\ keyCol # 0) =>
    \A r \in MatchedRows \cup CreatedRows :
      \A c \in DerivedCols :
        /\ ws[r][c].value.t = "formula"
        /\ RelativeRows(ws[r][c].value.s) = {r}

\* A call that matched a row and created another below row 2, a hand-made
\* row whose column 12 held a literal; the status formula of the created
\* row also refers to the header row by an absolute row.
C25_Witness ==
  /\ pc = "returned"
  /\ keyCol # 0
  /\ \E r \in MatchedRows :
       /\ r > 2
       /\ before[r][12].value.t = "str"
       /\ ws[r][12].value.t = "formula"
  /\ \E r \in CreatedRows :
       /\ r > 2
       /\ AbsoluteRows(ws[r][21].value.s) = {1}

\* C26: when all the runs on the same output file have completed, the file
\* holds the batch of every one of them: the run that took the lock later
\* loaded what the earlier one had persisted.
C26_NoLostUpdate ==
  (\A p \in Procs : rpc[p] = "done") =>
    /\ file.exists
    /\ ~file.partial
    /\ Procs \subseteq file.content

\* Both runs have completed, one of them after polling for the marker the
\* other held, and it had loaded the other's batch before adding its own.
C26_Witness ==
  /\ \A p \in Procs : rpc[p] = "done" /\ writes[p] = 1
  /\ \E q \in Procs : polls[q] > 0 /\ mem[q] = Procs
  /\ file = StoredFile(Procs)

\* The key row r of the sheet s reads as.
KeyAt(s, r) == excelCellValueToString(s[r][keyCol].value)

\* C27: every row that holds a key when a run of upsert begins holds the
\* same key, at the same row index, when the run returns, whether or not
\* the batch contains the key; so over any sequence of runs with the same
\* header order a key stays in the sheet at its row.
C27_KeysStayAtTheirRows ==
  (pc = "returned" /\ keyCol # 0) =>
    \A r \in Rows :
      (r >= 2 /\ Len(KeyAt(before, r)) > 0) => KeyAt(ws, r) = KeyAt(before, r)

\* The second of two runs has returned: a row the first run had created for
\* a key of the batch, and a row of the starting sheet whose key no record
\* carries, both hold their keys still.
C27_Witness ==
  /\ pc = "returned"
  /\ chained
  /\ keyCol # 0
  /\ \E r \in Rows : \E x \in Rows :
       /\ r >= 2
       /\ x > r
       /\ Len(KeyAt(before, r)) > 0
       /\ KeyAt(before, r) \notin BatchKeys
       /\ KeyAt(before, x) \in BatchKeys
       /\ x = prevRet
       /\ KeyAt(ws, r) = KeyAt(before, r)
       /\ KeyAt(ws, x) = KeyAt(before, x)

\* The non-empty keys the rows below the header of the sheet s hold, and
\* whether no two of its rows hold the same one.
KeysOf(s) == {KeyAt(s, r) : r \in Rows \ {1}} \ {<<>>}
UniqueKeys(s) ==
  \A r \in Rows : \A x \in Rows :
    (r >= 2 /\ x > r /\ Len(KeyAt(s, r)) > 0) => KeyAt(s, x) # KeyAt(s, r)

\* C28: when no two rows of the sheet hold the same non-empty key before a
\* call of upsert, no two rows hold the same non-empty key after it, and the
\* keys of the sheet are then the keys it held together with the non-empty
\* keys of the batch.
C28_KeysStayUnique ==
  (pc = "returned" /\ keyCol # 0 /\ UniqueKeys(before)) =>
    /\ UniqueKeys(ws)
    /\ KeysOf(ws) = KeysOf(before) \cup BatchKeys

\* C29: every row below the header, at or above the scanned lastDataRow,
\* whose key is the key of no record of the batch has after the call, in
\* every column 1..maxCol, the value, style and data validation it had
\* before.
C29_UnnamedRowsUntouched ==
  (pc = "returned" /\ keyCol # 0) =>
    \A r \in Rows :
      (r >= 2 /\ r <= scanLast /\ KeyAt(before, r) \notin BatchKeys) =>
        \A c \in 1..MaxColOf(headerOrder) : ws[r][c] = before[r][c]

\* A call that matched one row and created another, on a sheet where a row
\* above them holds a key no record carries and a manual entry: that row
\* is as it was.
C29_Witness ==
  /\ pc = "returned"
  /\ keyCol # 0
  /\ ret > scanLast
  /\ MaxColOf(headerOrder) >= ResetFirst
  /\ \E r \in Rows : \E x \in Rows :
       /\ r >= 2
       /\ x > r
       /\ x <= scanLast
       /\ Len(KeyAt(before, r)) > 0
       /\ KeyAt(before, r) \notin BatchKeys
       /\ before[r][ResetFirst].value # Null
       /\ ws[r] = before[r]
       /\ KeyAt(before, x) \in BatchKeys
       /\ ws[x] # before[x]

\* C30: for every headerOrder, with maxCol = min(38, length of headerOrder),
\* upsert writes no value, formula, data validation or number format to a
\* cell in a column greater than maxCol: after upsert has returned such a
\* cell holds no value and no number format, and no data validation but
\* the one it held before the call.
C30_NoContentBeyondMaxCol ==
  pc = "returned" =>
    \A r \in Rows : \A c \in Cols :
      c > MaxColOf(headerOrder) =>
        /\ ws[r][c].value = Null
        /\ ws[r][c].style.numFmt = ""
        /\ ws[r][c].dataValidation \in {NoDV, before[r][c].dataValidation}

====
